---- MODULE Spec2Model ----
(***************************************************************************)
(* Spatial-temporal matching of ground observations with TEMPO satellite   *)
(* pixels, as implemented by the validation scripts of the repository:     *)
(*   scientific_validation.py  scientific_spatial_temporal_matching        *)
(*   corrected_validation.py   perform_geographic_matching                 *)
(*   fixed_validation.py       improved_matching_with_relaxed_thresholds   *)
(*   improved_validation.py    improved_spatial_temporal_matching          *)
(*   advanced_validation.py    perform_spatial_temporal_matching and       *)
(*                             match_region_temporally_and_spatially       *)
(*                                                                         *)
(* Coordinates are points on one meridian, given in km north of a          *)
(* reference point; timestamps are whole hours after a reference hour.     *)
(***************************************************************************)
EXTENDS Integers, Sequences, FiniteSets, TLC

VARIABLES
    matcher,                \* the matching function that is running
    ground_data,            \* the ground table: a sequence of rows
    tempo_data,             \* dict region -> pool (sequence of pixel rows)
    spatial_radius_km,      \* the radius the matcher was called with
    temporal_window_hours,  \* the window the matcher was called with
    pc,                     \* "call": the matcher was entered, "loop": in its loops
    row,                    \* number of ground rows the loops have consumed
    matched_pairs,          \* the list the matcher appends to
    earlier,                \* results of the earlier executions (a sequence)
    args,                   \* the arguments of the statistics function called
    locals                  \* the local variables of the function that is running

vars == <<matcher, ground_data, tempo_data, spatial_radius_km,
          temporal_window_hours, pc, row, matched_pairs, earlier, args, locals>>

----------------------------------------------------------------------------
(* Bounds of the model *)

MaxGround == 2
MaxPixels == 2

----------------------------------------------------------------------------
(* Small helpers *)

Abs(x) == IF x < 0 THEN -x ELSE x

Range(s) == {s[k] : k \in 1..Len(s)}

SeqsUpTo(S, n) == UNION {[1..m -> S] : m \in 0..n}

Indices(s) == [k \in 1..Len(s) |-> k]

\* the value of args and locals while no statistics function is running
no_call == [function |-> "none"]

----------------------------------------------------------------------------
(* Input domains *)

\* two cities of the NYC region and one that no region lists
Cities == {"Boston", "Lima", "Philadelphia"}

\* group keys in the sorted order pandas' groupby iterates them
SortedCities ==
    <<"Boston", "Hamilton", "Lima", "New York City", "Philadelphia", "Toronto">>

\* ParameterName: CO has no satellite column in any script; PM2.5 is a
\* parameter only improved_validation.py looks at
Parameters == {"CO", "NO2", "PM2.5"}
CityGroupedParameters == {"CO", "NO2"}

SortedParameters == <<"CO", "NO2", "O3", "PM2.5">>

\* the station of each city, as km along the meridian
StationLatitude(city) == IF city = "Philadelphia" THEN 15 ELSE 10
GroundTimes == {5}

Radii == {20, 30}
Windows == {1, 6}

GroundRows(cities, params) ==
    {[city |-> c, Latitude |-> StationLatitude(c), time_utc |-> t, AQI |-> 50,
      ParameterName |-> p]
        : c \in cities, t \in GroundTimes, p \in params}

\* where and when a pixel was taken: <<latitude, hour>>
TempoSites == {<<10, 5>>, <<0, 5>>, <<10, 0>>, <<35, 5>>, <<35, 0>>}

TempoPixels ==
    {[latitude |-> s[1], time_utc |-> s[2], no2 |-> 5 + s[2], o3 |-> 20 + s[1]]
        : s \in TempoSites}

\* the TEMPO dict: the file of one region was loaded, NYC's or Canada's
TempoDicts ==
    {[r \in {"NYC"} |-> pool] : pool \in SeqsUpTo(TempoPixels, MaxPixels)}
        \cup {[r \in {"Canada"} |-> <<px>>] : px \in {px \in TempoPixels : px.latitude = 10 /\ px.time_utc = 5}}

----------------------------------------------------------------------------
(* haversine_distance for two points of one meridian: dlon = 0, so          *)
(* a = sin(dlat/2)^2, c = |dlat| and the result is R * |dlat|, the length   *)
(* of the meridian arc between them.                                        *)

haversine_distance(lat1, lat2) == Abs(lat2 - lat1)

(* the if/elif chain that maps a city to its TEMPO region; "none" stands    *)
(* for the else branch (continue)                                           *)
tempo_region_of(city) ==
    IF city \in {"New York City", "Philadelphia", "Boston", "Washington DC"}
    THEN "NYC"
    ELSE IF city \in {"Montreal", "Toronto", "Hamilton"}
    THEN "Canada"
    ELSE IF city \in {"Mexico City", "Ecatepec", "Toluca"}
    THEN "Mexico"
    ELSE "none"

\* the position of a group key among the sorted keys
Rank(sorted, key) == CHOOSE g \in 1..Len(sorted) : sorted[g] = key

(* ground_data.groupby('city'): the row labels in the order the nested      *)
(* loops visit them, groups by sorted key, rows of a group in table order   *)
groupby_city(gd) ==
    SortSeq(Indices(gd), LAMBDA a, b :
        \/ Rank(SortedCities, gd[a].city) < Rank(SortedCities, gd[b].city)
        \/ gd[a].city = gd[b].city /\ a < b)

(* distances <= radius, as the sequence of pool labels that pass *)
spatial_mask(pool, ground_row, radius) ==
    SelectSeq(Indices(pool), LAMBDA k :
        haversine_distance(ground_row.Latitude, pool[k].latitude) <= radius)

time_diff(pool, ground_row, k) == Abs(pool[k].time_utc - ground_row.time_utc)

\* a matcher that forgets the temporal filter
temporal_mask_unfiltered(pool, ground_row, nearby, window) == nearby

(* time_diff <= window over the nearby pixels *)
temporal_mask(pool, ground_row, nearby, window) ==
    SelectSeq(nearby, LAMBDA k : time_diff(pool, ground_row, k) <= window)

\* a score that leaves the time difference out
combined_score_distance_only(pool, ground_row, k, weight) ==
    haversine_distance(ground_row.Latitude, pool[k].latitude)

combined_score(pool, ground_row, k, weight) ==
    haversine_distance(ground_row.Latitude, pool[k].latitude)
        + time_diff(pool, ground_row, k) * weight

\* an arg-min that returns the last occurrence of the minimum
idxmin_last(labels, values) ==
    LET last == CHOOSE p \in 1..Len(labels) :
                    /\ \A q \in 1..Len(labels) : values[labels[p]] <= values[labels[q]]
                    /\ \A q \in (p + 1)..Len(labels) : values[labels[q]] > values[labels[p]]
    IN labels[last]

(* Series.idxmin: the label of the first occurrence of the minimum; the    *)
(* series is given by its labels in row order and the value at each label   *)
idxmin(labels, values) ==
    LET first == CHOOSE p \in 1..Len(labels) :
                    /\ \A q \in 1..Len(labels) : values[labels[p]] <= values[labels[q]]
                    /\ \A q \in 1..(p - 1) : values[labels[q]] > values[labels[p]]
    IN labels[first]

\* a matcher that applies the temporal filter to the whole pool instead of
\* the nearby pixels, and selects among the nearby ones
best_idx_unpaired(pool, ground_row, radius, window, weight) ==
    LET nearby  == spatial_mask(pool, ground_row, radius)
        in_time == temporal_mask(pool, ground_row, Indices(pool), window)
    IN IF nearby = <<>> THEN 0
       ELSE IF in_time = <<>> THEN 0
       ELSE idxmin(nearby, [k \in Range(nearby) |-> combined_score(pool, ground_row, k, weight)])

\* a selection that gives up when more than one pixel is left to choose from
best_idx_unambiguous(pool, ground_row, radius, window, weight) ==
    LET nearby  == spatial_mask(pool, ground_row, radius)
        matched == temporal_mask(pool, ground_row, nearby, window)
    IN IF nearby = <<>> THEN 0
       ELSE IF Len(matched) # 1 THEN 0
       ELSE matched[1]

(* the body of the per-row loop up to the selection of best_idx: 0 stands   *)
(* for the two `continue` exits (no pixel nearby, none within the window)   *)
best_idx(pool, ground_row, radius, window, weight) ==
    LET nearby  == spatial_mask(pool, ground_row, radius)
        matched == temporal_mask(pool, ground_row, nearby, window)
    IN IF nearby = <<>> THEN 0
       ELSE IF matched = <<>> THEN 0
       ELSE idxmin(matched, [k \in Range(matched) |-> combined_score(pool, ground_row, k, weight)])

(* the dict appended to matched_pairs by the three city-grouped matchers;   *)
(* ground_row and tempo_row are the labels of the two rows the dict's       *)
(* entries are copied from                                                  *)
matched_pair(lab, ground_row, pool, k, region) ==
    [ground_row       |-> lab,
     tempo_row        |-> k,
     ground_lat       |-> ground_row.Latitude,
     ground_time      |-> ground_row.time_utc,
     ground_value     |-> ground_row.AQI,
     ground_parameter |-> ground_row.ParameterName,
     tempo_lat        |-> pool[k].latitude,
     tempo_time       |-> pool[k].time_utc,
     tempo_no2        |-> pool[k].no2,
     tempo_o3         |-> pool[k].o3,
     distance_km      |-> haversine_distance(ground_row.Latitude, pool[k].latitude),
     time_diff_hours  |-> time_diff(pool, ground_row, k),
     city             |-> ground_row.city,
     region           |-> region]

\* an iteration in which a region without a pool aborts the matcher: what was
\* collected so far is lost
city_grouped_step_abort(weight) ==
    LET lab    == groupby_city(ground_data)[row + 1]
        g      == ground_data[lab]
        region == tempo_region_of(g.city)
    IN IF region = "none" THEN matched_pairs
       ELSE IF region \notin DOMAIN tempo_data THEN <<>>
       ELSE LET pool == tempo_data[region]
                k == best_idx(pool, g, spatial_radius_km, temporal_window_hours, weight)
            IN IF k = 0 THEN matched_pairs
               ELSE Append(matched_pairs, matched_pair(lab, g, pool, k, region))

(* one iteration of the nested loops of a city-grouped matcher: the row     *)
(* that comes next in groupby order is skipped or yields one pair           *)
city_grouped_step(weight) ==
    LET lab    == groupby_city(ground_data)[row + 1]
        g      == ground_data[lab]
        region == tempo_region_of(g.city)
    IN IF region = "none" \/ region \notin DOMAIN tempo_data
       THEN matched_pairs
       ELSE LET pool == tempo_data[region]
                k == best_idx(pool, g, spatial_radius_km, temporal_window_hours, weight)
            IN IF k = 0 THEN matched_pairs
               ELSE Append(matched_pairs, matched_pair(lab, g, pool, k, region))

scientific_spatial_temporal_matching ==
    /\ matcher = "scientific"
    /\ pc = "loop"
    /\ row < Len(ground_data)
    /\ matched_pairs' = city_grouped_step(2)
    /\ row' = row + 1
    /\ UNCHANGED <<matcher, ground_data, tempo_data, spatial_radius_km,
                   temporal_window_hours, pc, earlier, args, locals>>

perform_geographic_matching ==
    /\ matcher = "corrected"
    /\ pc = "loop"
    /\ row < Len(ground_data)
    /\ matched_pairs' = city_grouped_step(2)
    /\ row' = row + 1
    /\ UNCHANGED <<matcher, ground_data, tempo_data, spatial_radius_km,
                   temporal_window_hours, pc, earlier, args, locals>>

improved_matching_with_relaxed_thresholds ==
    /\ matcher = "fixed"
    /\ pc = "loop"
    /\ row < Len(ground_data)
    /\ matched_pairs' = city_grouped_step(2)
    /\ row' = row + 1
    /\ UNCHANGED <<matcher, ground_data, tempo_data, spatial_radius_km,
                   temporal_window_hours, pc, earlier, args, locals>>

(* groupby(['city', 'ParameterName']): groups by sorted (city, parameter) *)
groupby_city_parameter(gd) ==
    SortSeq(Indices(gd), LAMBDA a, b :
        \/ Rank(SortedCities, gd[a].city) < Rank(SortedCities, gd[b].city)
        \/ /\ gd[a].city = gd[b].city
           /\ \/ Rank(SortedParameters, gd[a].ParameterName)
                    < Rank(SortedParameters, gd[b].ParameterName)
              \/ gd[a].ParameterName = gd[b].ParameterName /\ a < b)

(* "Map parameter to TEMPO variable"; "none" stands for the else: continue *)
tempo_var_of(param) ==
    IF param \in {"O3", "OZONE"} THEN "o3"
    ELSE IF param \in {"NO2", "NO₂"} THEN "no2"
    ELSE IF param \in {"PM2.5", "PM25"} THEN "o3"
    ELSE "none"

(* one iteration of the nested loops of improved_spatial_temporal_matching *)
improved_step ==
    LET lab       == groupby_city_parameter(ground_data)[row + 1]
        g         == ground_data[lab]
        region    == tempo_region_of(g.city)
        tempo_var == tempo_var_of(g.ParameterName)
    IN IF region = "none" \/ region \notin DOMAIN tempo_data
       THEN matched_pairs
       ELSE IF tempo_var = "none" THEN matched_pairs
       ELSE LET pool == tempo_data[region]
                k == best_idx(pool, g, spatial_radius_km, temporal_window_hours, 5)
            IN IF k = 0 THEN matched_pairs
               ELSE Append(matched_pairs,
                    [ground_row       |-> lab,
                     tempo_row        |-> k,
                     ground_lat       |-> g.Latitude,
                     ground_time      |-> g.time_utc,
                     ground_value     |-> g.AQI,
                     ground_parameter |-> g.ParameterName,
                     tempo_lat        |-> pool[k].latitude,
                     tempo_time       |-> pool[k].time_utc,
                     tempo_value      |-> pool[k][tempo_var],
                     distance_km      |-> haversine_distance(g.Latitude, pool[k].latitude),
                     time_diff_hours  |-> time_diff(pool, g, k),
                     city             |-> g.city,
                     region           |-> region,
                     tempo_variable   |-> tempo_var])

improved_spatial_temporal_matching ==
    /\ matcher = "improved"
    /\ pc = "loop"
    /\ row < Len(ground_data)
    /\ matched_pairs' = improved_step
    /\ row' = row + 1
    /\ UNCHANGED <<matcher, ground_data, tempo_data, spatial_radius_km,
                   temporal_window_hours, pc, earlier, args, locals>>

----------------------------------------------------------------------------
(* advanced_validation.py: the region-segmented matcher *)

RegionRadiusKm == 150
RegionWindowHours == 72
QualityFlagMax == 2
CloudFractionMax == 80      \* 0.8, cloud fractions are given in percent
SolarZenithMax == 85
FillValue == 0 - 999

\* a conversion that moves a value that already is a timestamp by one hour
to_datetime_shifting(x) ==
    IF "text" \in DOMAIN x
    THEN CASE x.text = "2025-06-01 05:00" -> [hour |-> 5]
           [] x.text = "2025-06-01 00:00" -> [hour |-> 0]
    ELSE [hour |-> x.hour + 1]

(* pd.to_datetime: text becomes a timestamp, a timestamp stays what it is   *)
(* (every text of RawTimes parses, so errors='coerce' yields no NaT)        *)
to_datetime(x) ==
    IF "text" \in DOMAIN x
    THEN CASE x.text = "2025-06-01 05:00" -> [hour |-> 5]
           [] x.text = "2025-06-01 00:00" -> [hour |-> 0]
    ELSE x

RawTimes == {[text |-> "2025-06-01 05:00"]}

RegionCities == {"Toronto", "Unknown"}
GroundRegions == {"Canada", "NYC"}
RegionParameters == {"NO2", "PM2.5"}

RegionGroundRows(params) ==
    {[city |-> c, region |-> r, latitude |-> 10, utc |-> u, parameter |-> p,
      value |-> 50]
        : c \in RegionCities, r \in GroundRegions, u \in RawTimes, p \in params}

RegionPixel(latitude, hour, quality_flag, cloud_fraction, solar_zenith_angle, no2) ==
    [latitude |-> latitude, time |-> [hour |-> hour],
     quality_flag |-> quality_flag, cloud_fraction |-> cloud_fraction,
     solar_zenith_angle |-> solar_zenith_angle,
     no2_tropospheric_column |-> no2,
     ozone_total_column |-> 300 + latitude]

\* pixels of good quality at four sites (at the station and at the station's
\* hour, at the station 100 h earlier or later, 100 km away, 200 km away),
\* and at the station's site pixels that fail one quality filter each or
\* hold the fill value
RegionPixels ==
    {RegionPixel(10, 5, 0, 10, 30, 7), RegionPixel(10, 105, 0, 10, 30, 7),
     RegionPixel(110, 5, 0, 10, 30, 7), RegionPixel(210, 5, 0, 10, 30, 7),
     RegionPixel(10, 5, 3, 10, 30, 7), RegionPixel(10, 5, 0, 90, 30, 7),
     RegionPixel(10, 5, 0, 10, 85, 7), RegionPixel(10, 5, 0, 10, 30, FillValue)}

\* the quality columns a TEMPO file may come without
MissingColumns == {{}, {"quality_flag", "cloud_fraction", "solar_zenith_angle"}}

DropColumns(px, cols) == [c \in (DOMAIN px) \ cols |-> px[c]]

\* the TEMPO dict: a pool for CANADA, none for NYC and MEXICO
RegionTempoDicts ==
    {[r \in {"CANADA"} |-> [k \in 1..Len(pool) |-> DropColumns(pool[k], cols)]]
        : pool \in SeqsUpTo(RegionPixels, MaxPixels), cols \in MissingColumns}

columns(pool) == IF pool = <<>> THEN {} ELSE DOMAIN pool[1]

\* the first of a set of row labels
First(labels) == CHOOSE j \in labels : \A i \in labels : j <= i

(* the order in which the loops reach the rows: regions as                  *)
(* ground_data['region'].unique() lists them (first appearance), the cities *)
(* of a region as ground_region['city'].unique() lists them, the rows of a  *)
(* city in table order                                                      *)
region_order(gd) ==
    LET region_first(k) == First({j \in 1..Len(gd) : gd[j].region = gd[k].region})
        city_first(k) == First({j \in 1..Len(gd) :
                            gd[j].region = gd[k].region /\ gd[j].city = gd[k].city})
    IN SortSeq(Indices(gd), LAMBDA a, b :
          \/ region_first(a) < region_first(b)
          \/ /\ gd[a].region = gd[b].region
             /\ \/ city_first(a) < city_first(b)
                \/ gd[a].city = gd[b].city /\ a < b)

(* tempo_region_map.get(region); "none" stands for None *)
tempo_region_map(region) ==
    CASE region = "Canada" -> "CANADA"
      [] region = "NYC"    -> "NYC"
      [] region = "Mexico" -> "MEXICO"
      [] OTHER             -> "none"

\* quality filters that let a solar zenith angle of exactly 85 degrees pass
quality_filter_inclusive(pool) ==
    LET f1 == IF "quality_flag" \in columns(pool)
              THEN SelectSeq(Indices(pool), LAMBDA k : pool[k].quality_flag <= QualityFlagMax)
              ELSE Indices(pool)
        f2 == IF "cloud_fraction" \in columns(pool)
              THEN SelectSeq(f1, LAMBDA k : pool[k].cloud_fraction < CloudFractionMax)
              ELSE f1
        f3 == IF "solar_zenith_angle" \in columns(pool)
              THEN SelectSeq(f2, LAMBDA k : pool[k].solar_zenith_angle <= SolarZenithMax)
              ELSE f2
    IN f3

(* the three quality filters, each applied if its column exists: the labels *)
(* of the pool that remain                                                  *)
quality_filter(pool) ==
    LET f1 == IF "quality_flag" \in columns(pool)
              THEN SelectSeq(Indices(pool), LAMBDA k : pool[k].quality_flag <= QualityFlagMax)
              ELSE Indices(pool)
        f2 == IF "cloud_fraction" \in columns(pool)
              THEN SelectSeq(f1, LAMBDA k : pool[k].cloud_fraction < CloudFractionMax)
              ELSE f1
        f3 == IF "solar_zenith_angle" \in columns(pool)
              THEN SelectSeq(f2, LAMBDA k : pool[k].solar_zenith_angle < SolarZenithMax)
              ELSE f2
    IN f3

(* "Extract pollutant values based on parameter"; "none" stands for None *)
pollutant_col_of(parameter) ==
    CASE parameter = "OZONE" -> "ozone_total_column"
      [] parameter = "NO2"   -> "no2_tropospheric_column"
      [] parameter = "PM2.5" -> "pm25"
      [] parameter = "HCHO"  -> "hcho_tropospheric_column"
      [] OTHER               -> "none"

region_time_diff(pool, ground_row, k) ==
    Abs(to_datetime(pool[k].time).hour - ground_row.utc.hour)

(* the label distances[distances <= 150].idxmin() *)
closest_idx(pool, ground_row, nearby) ==
    idxmin(nearby, [k \in Range(nearby) |->
        haversine_distance(ground_row.latitude, pool[k].latitude)])

(* one iteration of the loops of perform_spatial_temporal_matching and of   *)
(* match_region_temporally_and_spatially, which it calls for the region     *)
region_step ==
    LET lab  == region_order(ground_data)[row + 1]
        g    == ground_data[lab]
        name == tempo_region_map(g.region)
    IN IF name = "none" \/ name \notin DOMAIN tempo_data THEN matched_pairs
       ELSE LET pool == tempo_data[name]
                tempo_region == quality_filter(pool)
                nearby == SelectSeq(tempo_region, LAMBDA k :
                    haversine_distance(g.latitude, pool[k].latitude) <= RegionRadiusKm)
                valid_tempo == SelectSeq(nearby, LAMBDA k :
                    region_time_diff(pool, g, k) <= RegionWindowHours)
                col == pollutant_col_of(g.parameter)
            IN IF pool = <<>> THEN matched_pairs
               ELSE IF g.city = "Unknown" THEN matched_pairs
               ELSE IF nearby = <<>> THEN matched_pairs
               ELSE IF valid_tempo = <<>> THEN matched_pairs
               ELSE IF col = "none" \/ col \notin columns(pool) THEN matched_pairs
               ELSE LET k == closest_idx(pool, g, nearby)
                    IN IF pool[k][col] = FillValue THEN matched_pairs
                       ELSE Append(matched_pairs,
                            [ground_row       |-> lab,
                             tempo_row        |-> k,
                             city             |-> g.city,
                             region           |-> g.region,
                             ground_lat       |-> g.latitude,
                             ground_time      |-> g.utc,
                             ground_value     |-> g.value,
                             ground_parameter |-> g.parameter,
                             tempo_lat        |-> pool[k].latitude,
                             tempo_time       |-> pool[k].time,
                             tempo_value      |-> pool[k][col],
                             tempo_parameter  |-> col,
                             distance_km      |-> haversine_distance(g.latitude, pool[k].latitude),
                             time_diff_hours  |-> region_time_diff(pool, g, k)])

(* entry of perform_spatial_temporal_matching: the utc column of the        *)
(* caller's table is parsed in place                                        *)
perform_spatial_temporal_matching ==
    /\ matcher = "region"
    /\ pc = "call"
    /\ ground_data' = [k \in 1..Len(ground_data) |->
                          [ground_data[k] EXCEPT !.utc = to_datetime(@)]]
    /\ pc' = "loop"
    /\ UNCHANGED <<matcher, tempo_data, spatial_radius_km, temporal_window_hours,
                   row, matched_pairs, earlier, args, locals>>

match_region_temporally_and_spatially ==
    /\ matcher = "region"
    /\ pc = "loop"
    /\ row < Len(ground_data)
    /\ matched_pairs' = region_step
    /\ row' = row + 1
    /\ UNCHANGED <<matcher, ground_data, tempo_data, spatial_radius_km,
                   temporal_window_hours, pc, earlier, args, locals>>

InitRegion ==
    /\ matcher = "region"
    /\ ground_data \in SeqsUpTo(RegionGroundRows(RegionParameters), MaxGround)
    /\ tempo_data \in RegionTempoDicts
    /\ spatial_radius_km = RegionRadiusKm
    /\ temporal_window_hours = RegionWindowHours
    /\ pc = "call"
    /\ row = 0
    /\ matched_pairs = <<>>
    /\ earlier = <<>>
    /\ args = no_call
    /\ locals = no_call

NextRegion ==
    \/ perform_spatial_temporal_matching
    \/ match_region_temporally_and_spatially

SpecRegion == InitRegion /\ [][NextRegion]_vars

----------------------------------------------------------------------------
ParameterisedMatchers == {"scientific", "corrected", "fixed", "improved"}

InitParameterised ==
    /\ matcher \in ParameterisedMatchers
    /\ ground_data \in SeqsUpTo(GroundRows(Cities, IF matcher = "improved" THEN Parameters
                                                    ELSE CityGroupedParameters), MaxGround)
    /\ tempo_data \in TempoDicts
    /\ spatial_radius_km \in Radii
    /\ temporal_window_hours \in Windows
    /\ pc = "loop"
    /\ row = 0
    /\ matched_pairs = <<>>
    /\ earlier = <<>>
    /\ args = no_call
    /\ locals = no_call

Init == InitParameterised

Next ==
    \/ scientific_spatial_temporal_matching
    \/ perform_geographic_matching
    \/ improved_matching_with_relaxed_thresholds
    \/ improved_spatial_temporal_matching

Spec == Init /\ [][Next]_vars

----------------------------------------------------------------------------
(* A second call of a matcher with the tables of the first call; the        *)
(* arguments and the result of the first call are kept in `earlier`.        *)

finished == pc = "loop" /\ row = Len(ground_data)

execution == [spatial_radius_km     |-> spatial_radius_km,
              temporal_window_hours |-> temporal_window_hours,
              ground_data           |-> ground_data,
              matched_pairs         |-> matched_pairs]

\* the matcher is called again with a radius and a window of the caller's
\* choice (the region matcher has none: 150 km and 72 h are built in)
call_again ==
    /\ finished
    /\ earlier = <<>>
    /\ earlier' = <<execution>>
    /\ IF matcher = "region"
       THEN UNCHANGED <<spatial_radius_km, temporal_window_hours>>
       ELSE /\ spatial_radius_km' \in Radii
            /\ temporal_window_hours' \in Windows
    /\ pc' = IF matcher = "region" THEN "call" ELSE "loop"
    /\ row' = 0
    /\ matched_pairs' = <<>>
    /\ UNCHANGED <<matcher, ground_data, tempo_data, args, locals>>

InitAgain ==
    /\ matcher \in {"scientific", "fixed", "region"}
    /\ IF matcher = "region"
       THEN /\ ground_data \in SeqsUpTo(RegionGroundRows({"NO2"}), MaxGround)
            /\ tempo_data \in RegionTempoDicts
            /\ spatial_radius_km = RegionRadiusKm
            /\ temporal_window_hours = RegionWindowHours
            /\ pc = "call"
       ELSE /\ ground_data \in SeqsUpTo(GroundRows(Cities, {"NO2"}), MaxGround)
            /\ tempo_data \in TempoDicts
            /\ spatial_radius_km \in Radii
            /\ temporal_window_hours \in Windows
            /\ pc = "loop"
    /\ row = 0
    /\ matched_pairs = <<>>
    /\ earlier = <<>>
    /\ args = no_call
    /\ locals = no_call

NextAgain ==
    \/ scientific_spatial_temporal_matching
    \/ improved_matching_with_relaxed_thresholds
    \/ perform_spatial_temporal_matching
    \/ match_region_temporally_and_spatially
    \/ call_again

SpecAgain == InitAgain /\ [][NextAgain]_vars

(* A second execution on the ground table without the rows of the regions   *)
(* that have no pool in the TEMPO dict                                      *)

\* the row is not skipped for want of a pool: its region has a key in the
\* TEMPO dict (a city that no region lists is not of a region without a pool)
has_pool(ground_row) ==
    IF matcher = "region"
    THEN tempo_region_map(ground_row.region) \in DOMAIN tempo_data
    ELSE tempo_region_of(ground_row.city) \in {"none"} \cup DOMAIN tempo_data

call_without_unmatched_regions ==
    /\ finished
    /\ earlier = <<>>
    /\ earlier' = <<execution>>
    /\ ground_data' = SelectSeq(ground_data, has_pool)
    /\ pc' = IF matcher = "region" THEN "call" ELSE "loop"
    /\ row' = 0
    /\ matched_pairs' = <<>>
    /\ UNCHANGED <<matcher, tempo_data, spatial_radius_km, temporal_window_hours,
                   args, locals>>

AbsentCities == {"Hamilton", "New York City", "Toronto"}

InitAbsent ==
    /\ matcher \in {"scientific", "region"}
    /\ IF matcher = "region"
       THEN /\ ground_data \in SeqsUpTo(RegionGroundRows({"NO2"}), MaxGround)
            /\ tempo_data \in RegionTempoDicts
            /\ spatial_radius_km = RegionRadiusKm
            /\ temporal_window_hours = RegionWindowHours
            /\ pc = "call"
       ELSE /\ ground_data \in SeqsUpTo(GroundRows(AbsentCities, {"NO2"}), MaxGround)
            /\ tempo_data \in TempoDicts
            /\ spatial_radius_km \in Radii
            /\ temporal_window_hours \in Windows
            /\ pc = "loop"
    /\ row = 0
    /\ matched_pairs = <<>>
    /\ earlier = <<>>
    /\ args = no_call
    /\ locals = no_call

NextAbsent ==
    \/ scientific_spatial_temporal_matching
    \/ perform_spatial_temporal_matching
    \/ match_region_temporally_and_spatially
    \/ call_without_unmatched_regions

SpecAbsent == InitAbsent /\ [][NextAbsent]_vars

----------------------------------------------------------------------------
(* The validation pipelines: main() of scientific_validation.py, of         *)
(* improved_validation.py and of advanced_validation.py cleans the ground   *)
(* table, calls its matcher with the default tolerances and goes on to the  *)
(* statistics and the artifacts.                                            *)

\* a missing cell, as read_csv and pd.to_numeric(errors='coerce') leave it;
\* it is no number of the domains and no order comparison with it is true
NaN == 0 - 1000000

notna(v) == v # NaN

Pipelines == {"scientific", "improved", "region"}

\* the longitude of the meridian all stations and pixels lie on
Meridian == 0

\* the rows of historical_combined.csv after pd.to_numeric
RawGroundRows ==
    {[city |-> "Boston", Latitude |-> la, Longitude |-> lo, time_utc |-> 5,
      AQI |-> v, ParameterName |-> "NO2"]
        : la \in {10, NaN}, lo \in {Meridian, NaN}, v \in {50, 0, 600, NaN}}

\* the rows of synthetic_matching_ground_data.csv
RawRegionRows ==
    {[city |-> "toronto", region |-> "Canada", latitude |-> la, longitude |-> lo,
      utc |-> u, parameter |-> "no2", value |-> v]
        : la \in {10, NaN}, lo \in {Meridian, NaN}, u \in RawTimes, v \in {50, 0, NaN}}

\* further rows of the synthetic table, complete and of city 'Unknown', which
\* match_region_temporally_and_spatially leaves out of cities_in_region
UnknownRows == {0, 101}

\* the tables of TEMPO pixels of the pipelines: a pixel over the station in
\* the hour of the observation, or no pixel
PipelineTempoDicts ==
    {[r \in {"NYC"} |-> pool] : pool \in SeqsUpTo({px \in TempoPixels :
                                   px.latitude = 10 /\ px.time_utc = 5}, 1)}

PipelineRegionTempoDicts ==
    {[r \in {"CANADA"} |-> pool] : pool \in SeqsUpTo({RegionPixel(10, 5, 0, 10, 30, 7)}, 1)}

\* the labels of the rows of a city, in table order
city_rows(gd, city) == SelectSeq(Indices(gd), LAMBDA k : gd[k].city = city)

\* the values of a column in ascending order
sort_values(values) == SortSeq(values, LAMBDA a, b : a < b)

(* 100 * Series.quantile(q / 100) with linear interpolation: position       *)
(* h = (n - 1) * q / 100 between the sorted values                          *)
quantile_x100(values, q) ==
    LET v == sort_values(values)
        n == Len(v)
        i == ((n - 1) * q) \div 100
        rest == (n - 1) * q - 100 * i
    IN IF i + 2 <= n THEN 100 * v[i + 1] + rest * (v[i + 2] - v[i + 1])
       ELSE 100 * v[i + 1]

(* the outlier loop of load_and_clean_ground_data: the rows of a city with  *)
(* more than 20 rows are kept if their AQI is within its 1% and 99%         *)
(* quantiles                                                                *)
remove_outliers(gd) ==
    SelectSeq(gd, LAMBDA r :
        LET labels == city_rows(gd, r.city)
            aqi    == [k \in 1..Len(labels) |-> gd[labels[k]].AQI]
        IN Len(labels) > 20 =>
              /\ 100 * r.AQI >= quantile_x100(aqi, 1)
              /\ 100 * r.AQI <= quantile_x100(aqi, 99))

(* load_and_clean_ground_data of scientific_validation.py: dropna on        *)
(* Latitude and Longitude, 0 < AQI < 500, AQI != -999, outlier removal      *)
load_and_clean_ground_data(gd) ==
    LET located == SelectSeq(gd, LAMBDA r : notna(r.Latitude) /\ notna(r.Longitude))
        ranged  == SelectSeq(located, LAMBDA r :
                       notna(r.AQI) /\ r.AQI > 0 /\ r.AQI < 500)
        valued  == SelectSeq(ranged, LAMBDA r : r.AQI # FillValue)
    IN remove_outliers(valued)

\* the cleaning of main() of improved_validation.py: dropna on Latitude and
\* Longitude
improved_clean(gd) ==
    SelectSeq(gd, LAMBDA r : notna(r.Latitude) /\ notna(r.Longitude))

(* the ground data normalization of main() of advanced_validation.py: the   *)
(* measurement column is 'value' if more than 100 of its cells are not      *)
(* missing, else 'aqi' on the same condition, else main returns; rows with  *)
(* a missing latitude, longitude, parameter or measurement are dropped      *)
RegionColumns == {"city", "region", "latitude", "longitude", "utc", "parameter", "value"}

measurement_column(gd, unknown_rows) ==
    LET filled(col) == Cardinality({k \in 1..Len(gd) : notna(gd[k][col])}) + unknown_rows
    IN IF "value" \in RegionColumns /\ filled("value") > 100 THEN "value"
       ELSE IF "aqi" \in RegionColumns /\ filled("aqi") > 100 THEN "aqi"
       ELSE "none"

\* str.title() and str.upper() on the names of the tables
title(city) == IF city = "toronto" THEN "Toronto" ELSE city
upper(parameter) == IF parameter = "no2" THEN "NO2" ELSE parameter

advanced_normalize(gd, col) ==
    LET kept == SelectSeq(gd, LAMBDA r :
                    /\ notna(r.latitude) /\ notna(r.longitude)
                    /\ r.parameter # "" /\ notna(r[col]))
    IN [k \in 1..Len(kept) |-> [f \in DOMAIN kept[k] \cup {"value"} |->
            CASE f = "value"     -> kept[k][col]
              [] f = "city"      -> title(kept[k].city)
              [] f = "parameter" -> upper(kept[k].parameter)
              [] OTHER           -> kept[k][f]]]

\* main() up to the call of the matcher
clean ==
    /\ pc = "clean"
    /\ LET col == measurement_column(ground_data, locals.unknown_rows)
       IN IF matcher = "region" /\ col = "none"
          THEN /\ pc' = "exit"
               /\ locals' = [locals EXCEPT !.message = "No suitable measurement column found"]
               /\ UNCHANGED ground_data
          ELSE /\ ground_data' =
                     CASE matcher = "scientific" -> load_and_clean_ground_data(ground_data)
                       [] matcher = "improved"   -> improved_clean(ground_data)
                       [] matcher = "region"     -> advanced_normalize(ground_data, col)
               /\ pc' = IF matcher = "region" THEN "call" ELSE "loop"
               /\ UNCHANGED locals
    /\ UNCHANGED <<matcher, tempo_data, spatial_radius_km, temporal_window_hours,
                   row, matched_pairs, earlier, args>>

\* the files main() of each script writes after its statistics
Artifacts ==
    [scientific |-> {"scientific_validation_metrics.json", "scientific_matched_data.csv",
                     "scientific_corrected_data.csv"},
     improved   |-> {"validation_metrics.json", "matched_data.csv"},
     region     |-> {"comprehensive_validation_report.json", "agreement_summary_table.csv"}]

(* main() after the matcher returned. scientific_validation.py and          *)
(* improved_validation.py replace an empty result by random pairs and go    *)
(* on; advanced_validation.py prints a message and returns.                 *)
report ==
    /\ finished
    /\ locals.function = "main"
    /\ pc' = "exit"
    /\ locals' =
          IF matched_pairs = <<>>
          THEN IF matcher = "region"
               THEN [locals EXCEPT !.message = "No matches found between ground and TEMPO data."]
               ELSE [locals EXCEPT
                        !.message = "No matches found - creating synthetic data for demonstration",
                        !.synthetic = TRUE,
                        !.statistics = TRUE,
                        !.artifacts = Artifacts[matcher]]
          ELSE [locals EXCEPT !.statistics = TRUE, !.artifacts = Artifacts[matcher]]
    /\ UNCHANGED <<matcher, ground_data, tempo_data, spatial_radius_km,
                   temporal_window_hours, row, matched_pairs, earlier, args>>

InitPipeline ==
    /\ matcher \in Pipelines
    /\ pc = "clean"
    /\ IF matcher = "region"
       THEN /\ ground_data \in SeqsUpTo(RawRegionRows, MaxGround)
            /\ tempo_data \in PipelineRegionTempoDicts
            /\ spatial_radius_km = RegionRadiusKm
            /\ temporal_window_hours = RegionWindowHours
            /\ \E n \in UnknownRows : locals = [function |-> "main", unknown_rows |-> n,
                    message |-> "", synthetic |-> FALSE, statistics |-> FALSE,
                    artifacts |-> {}]
       ELSE /\ ground_data \in SeqsUpTo(RawGroundRows, MaxGround)
            /\ tempo_data \in PipelineTempoDicts
            /\ spatial_radius_km = IF matcher = "scientific" THEN 20 ELSE 10
            /\ temporal_window_hours = 1
            /\ locals = [function |-> "main", unknown_rows |-> 0,
                    message |-> "", synthetic |-> FALSE, statistics |-> FALSE,
                    artifacts |-> {}]
    /\ row = 0
    /\ matched_pairs = <<>>
    /\ earlier = <<>>
    /\ args = no_call

NextPipeline ==
    \/ clean
    \/ scientific_spatial_temporal_matching
    \/ improved_spatial_temporal_matching
    \/ perform_spatial_temporal_matching
    \/ match_region_temporally_and_spatially
    \/ report

SpecPipeline == InitPipeline /\ [][NextPipeline]_vars

----------------------------------------------------------------------------
(* Floating-point values of the statistics functions: exact rationals       *)
(* n / d with d > 0 in lowest terms, extended by nan (0/0), inf (1/0) and   *)
(* -inf (-1/0), with the arithmetic numpy gives these.                      *)

RECURSIVE gcd(_, _)
gcd(a, b) == IF b = 0 THEN a ELSE gcd(b, a % b)

sign(i) == IF i > 0 THEN 1 ELSE IF i < 0 THEN 0 - 1 ELSE 0

Q(n, d) ==
    IF d = 0 THEN [n |-> sign(n), d |-> 0]
    ELSE LET g == gcd(Abs(n), Abs(d))
         IN [n |-> sign(d) * (n \div g), d |-> Abs(d) \div g]

nan == [n |-> 0, d |-> 0]
inf == [n |-> 1, d |-> 0]
zero == [n |-> 0, d |-> 1]
one == [n |-> 1, d |-> 1]

isnan(a) == a.d = 0 /\ a.n = 0
isinf(a) == a.d = 0 /\ a.n # 0
isfinite(a) == a.d # 0

neg(a) == [n |-> 0 - a.n, d |-> a.d]

add(a, b) ==
    IF isnan(a) \/ isnan(b) THEN nan
    ELSE IF isinf(a) /\ isinf(b) THEN (IF a.n = b.n THEN a ELSE nan)
    ELSE IF isinf(a) THEN a
    ELSE IF isinf(b) THEN b
    ELSE IF a.d = b.d
         THEN (IF a.d = 1 THEN [n |-> a.n + b.n, d |-> 1] ELSE Q(a.n + b.n, a.d))
    ELSE LET g == gcd(a.d, b.d)
         IN Q(a.n * (b.d \div g) + b.n * (a.d \div g), (a.d \div g) * b.d)

sub(a, b) == add(a, neg(b))

\* (n1 / d1) * (n2 / d2), common factors cancelled before multiplying
times(n1, d1, n2, d2) ==
    LET g1 == gcd(Abs(n1), Abs(d2))
        g2 == gcd(Abs(n2), Abs(d1))
    IN IF n1 = 0 \/ n2 = 0 THEN zero
       ELSE IF d1 = 1 /\ d2 = 1 THEN [n |-> n1 * n2, d |-> 1]
       ELSE Q((n1 \div g1) * (n2 \div g2), (d1 \div g2) * (d2 \div g1))

mul(a, b) ==
    IF isnan(a) \/ isnan(b) THEN nan
    ELSE IF isinf(a) \/ isinf(b)
         THEN (IF a.n = 0 \/ b.n = 0 THEN nan ELSE [n |-> sign(a.n) * sign(b.n), d |-> 0])
    ELSE times(a.n, a.d, b.n, b.d)

\* division of numpy floats: x / 0 is nan or an infinity, with a warning
div(a, b) ==
    IF isnan(a) \/ isnan(b) THEN nan
    ELSE IF isinf(a) THEN (IF isinf(b) THEN nan
                           ELSE [n |-> a.n * (IF b.n < 0 THEN 0 - 1 ELSE 1), d |-> 0])
    ELSE IF isinf(b) THEN zero
    ELSE IF b.n = 0 THEN [n |-> sign(a.n), d |-> 0]
    ELSE times(a.n, a.d, sign(b.n) * b.d, Abs(b.n))

\* an / ad < bn / bd for ad, bd > 0, by the integer parts and then by the
\* reciprocals of the fractional parts
RECURSIVE fraction_less(_, _, _, _)
fraction_less(an, ad, bn, bd) ==
    IF an \div ad # bn \div bd THEN an \div ad < bn \div bd
    ELSE IF bn % bd = 0 THEN FALSE
    ELSE IF an % ad = 0 THEN TRUE
    ELSE fraction_less(bd, bn % bd, ad, an % ad)

\* a < b; every comparison with nan is false
less(a, b) ==
    IF isnan(a) \/ isnan(b) THEN FALSE
    ELSE IF isinf(a) THEN a.n < 0 /\ a # b
    ELSE IF isinf(b) THEN b.n > 0
    ELSE fraction_less(a.n, a.d, b.n, b.d)

leq(a, b) == ~ isnan(a) /\ ~ isnan(b) /\ ~ less(b, a)

absolute(a) == [n |-> Abs(a.n), d |-> a.d]

\* np.sum and np.mean of an array: the sum of no element is 0, the mean of
\* no element is nan
RECURSIVE np_sum(_)
np_sum(a) == IF a = <<>> THEN zero ELSE add(a[1], np_sum(Tail(a)))

np_mean(a) == div(np_sum(a), Q(Len(a), 1))

\* a ** 2
square(a) == mul(a, a)

\* a ** 2 of every element
squares(a) == [k \in 1..Len(a) |-> square(a[k])]

\* (a - centre) ** 2 of every element
squared_deviations(a, centre) == [k \in 1..Len(a) |-> square(sub(a[k], centre))]

\* np.var: the mean of the squared deviations from the mean
np_var(a) == np_mean(squared_deviations(a, np_mean(a)))

\* the middle of the sorted values v, or the mean of the two middle ones
middle(v) ==
    IF Len(v) % 2 = 1 THEN v[(Len(v) + 1) \div 2]
    ELSE div(add(v[Len(v) \div 2], v[Len(v) \div 2 + 1]), Q(2, 1))

(* np.median: nan for an empty array and for an array that holds a nan,     *)
(* else the middle of the sorted values or the mean of the two middle ones  *)
np_median(a) ==
    IF a = <<>> \/ \E k \in 1..Len(a) : isnan(a[k]) THEN nan
    ELSE middle(SortSeq(a, less))

----------------------------------------------------------------------------
(* deming_regression of advanced_validation.py *)

\* the factor that turns a median absolute deviation into a sigma
MadToSigma == Q(7413, 5000)

\* np.abs(x - med)
absolute_deviations(x, med) == [k \in 1..Len(x) |-> absolute(sub(x[k], med))]

(* robust_var: (1.4826 * mad)^2 for the median absolute deviation mad of x. *)
(* The 1e-9 the code adds to mad is below the resolution of these numbers;  *)
(* lambda_estimate accounts for it where it decides the result.             *)
robust_var(x) == square(mul(MadToSigma, np_median(absolute_deviations(x, np_median(x)))))

\* the bounds of np.clip(lambda_ratio, 0.05, 20.0)
LambdaMin == Q(1, 20)
LambdaMax == Q(20, 1)

(* var_ground / max(var_tempo, 1e-9). Python's max(nan, 1e-9) is nan. A     *)
(* variance of 0 stands for the code's (1.4826e-9)^2 = 2.2e-18, which is    *)
(* below the floor 1e-9: divided by the floor it gives 2.2e-9 and a         *)
(* variance that is not 0 gives more than 1e8.                              *)
variance_ratio(var_ground, var_tempo) ==
    IF isnan(var_ground) \/ isnan(var_tempo) THEN nan
    ELSE IF var_tempo = zero
         THEN (IF var_ground = zero THEN Q(2, 1000000000)
               ELSE IF isinf(var_ground) THEN inf
               ELSE Q(100000000, 1))
    ELSE div(var_ground, var_tempo)

\* lines 95-98: lambda_ratio = robust_var(x) / max(robust_var(y), 1e-9)
lambda_estimate(x, y) == variance_ratio(robust_var(x), robust_var(y))

np_clip(a, lo, hi) ==
    IF isnan(a) THEN nan
    ELSE IF less(a, lo) THEN lo
    ELSE IF less(hi, a) THEN hi
    ELSE a

\* lines 100-103: the clamped ratio, and whether the clamp warning is printed
clamp(lambda_ratio, lambda_clamped) ==
    [lambda_used |-> lambda_clamped,
     warned |-> lambda_ratio # lambda_clamped \/ isnan(lambda_ratio)]

lambda_clamp(lambda_ratio) == clamp(lambda_ratio, np_clip(lambda_ratio, LambdaMin, LambdaMax))

\* the rows in which both arrays hold a finite value
clean_mask(x, y) == SelectSeq(Indices(x), LAMBDA k : isfinite(x[k]) /\ isfinite(y[k]))

\* the elements of x at the labels of mask
take(x, mask) == [k \in 1..Len(mask) |-> x[mask[k]]]

\* the element-wise product of two arrays
products(x, y) == [k \in 1..Len(x) |-> mul(x[k], y[k])]

\* the least-squares line of slope `slope`
line(n, sx, sy, slope) ==
    [raised |-> FALSE, slope |-> slope, intercept |-> div(sub(sy, mul(slope, sx)), n)]

(* the solution of the normal equations with determinant det; for a         *)
(* constant x = c the solution of least norm of the scaled system, slope    *)
(* mean(y) / (2c) and intercept mean(y) / 2, with a RankWarning; with c = 0 *)
(* the scaled matrix holds nan and lstsq raises                             *)
lstsq(n, sx, sy, sxy, det, c) ==
    IF det = zero
    THEN (IF c = zero
          THEN [raised |-> TRUE, slope |-> nan, intercept |-> nan]
          ELSE [raised |-> FALSE,
                slope |-> div(div(sy, n), mul(Q(2, 1), c)),
                intercept |-> div(div(sy, n), Q(2, 1))])
    ELSE line(n, sx, sy, div(sub(mul(n, sxy), mul(sx, sy)), det))

normal_equations(n, sx, sy, sxx, sxy, c) ==
    lstsq(n, sx, sy, sxy, sub(mul(n, sxx), square(sx)), c)

\* np.polyfit(x, y, 1) for finite values: raises on empty arrays
np_polyfit(x, y) ==
    IF x = <<>> THEN [raised |-> TRUE, slope |-> nan, intercept |-> nan]
    ELSE normal_equations(Q(Len(x), 1), np_sum(x), np_sum(y),
                          np_sum(products(x, x)), np_sum(products(x, y)), x[1])

\* slope * x + intercept
predict(x, slope, intercept) == [k \in 1..Len(x) |-> add(mul(slope, x[k]), intercept)]

\* y - y_pred
residuals(y, y_pred) == [k \in 1..Len(y) |-> sub(y[k], y_pred[k])]

\* np.sum((y - y_pred)**2)
sum_of_squares(y, y_pred) == np_sum(squares(residuals(y, y_pred)))

\* np.sum((y - np.mean(y))**2)
total_sum_of_squares(y) == np_sum(squared_deviations(y, np_mean(y)))

(* sklearn's score for the two sums of squares: for a constant y_true 1.0   *)
(* if the residual sum is exactly 0, else 0.0; `exact` tells whether a      *)
(* prediction that equals y_true in exact arithmetic does so in floating    *)
(* point                                                                    *)
score(ss_res, ss_tot, exact) ==
    IF ss_tot # zero THEN sub(one, div(ss_res, ss_tot))
    ELSE IF ss_res = zero /\ exact THEN one
    ELSE zero

\* sklearn's r2_score: nan for fewer than two samples
r2_score(y_true, y_pred, exact) ==
    IF Len(y_true) < 2 THEN nan
    ELSE score(sum_of_squares(y_true, y_pred), total_sum_of_squares(y_true), exact)

\* no value was passed for lambda_ratio
None == [none |-> TRUE]

\* slope = 1, intercept = 0, r2 = 0
neutral == [slope |-> one, intercept |-> zero, r_squared |-> zero]

\* the line `fit` with the r2_score of its predictions
line_with_r2(x, y, fit, exact) ==
    [slope |-> fit.slope, intercept |-> fit.intercept,
     r_squared |-> r2_score(y, predict(x, fit.slope, fit.intercept), exact)]

\* lines 110-116 on the clean rows
regression(x_clean, y_clean, fit, exact) ==
    IF Len(x_clean) > 1
    THEN (IF fit.raised THEN neutral ELSE line_with_r2(x_clean, y_clean, fit, exact))
    ELSE neutral

clean_regression(x_clean, y_clean, exact) ==
    regression(x_clean, y_clean, np_polyfit(x_clean, y_clean), exact)

(* lines 104-118: the linear regression on the clean rows that is returned  *)
(* when a variance is degenerate or a value is nan or infinite              *)
simple_linear_regression(x, y, exact) ==
    clean_regression(take(x, clean_mask(x, y)), take(y, clean_mask(x, y)), exact)

(* what scipy's minimize(objective, [slope_ols, intercept_ols]) does: on    *)
(* empty arrays the objective is constantly 0 and BFGS stops at the initial *)
(* guess; otherwise it converges, stops without convergence                 *)
(* (result.success is False) or raises, and result.x is some point          *)
OptimizerPoints(slope_ols, intercept_ols) ==
    {<<slope_ols, intercept_ols>>, <<one, zero>>, <<Q(2, 1), Q(0 - 1, 1)>>}

MinimizeOutcomes(x, slope_ols, intercept_ols) ==
    IF x = <<>>
    THEN {[status |-> "converged", x |-> <<slope_ols, intercept_ols>>]}
    ELSE {[status |-> st, x |-> pt]
            : st \in {"converged", "not_converged", "raised"},
              pt \in OptimizerPoints(slope_ols, intercept_ols)}

\* lines 121-125: the line of np.polyfit, or 1.0, 0.0 if it raised
guess_of(fit) ==
    IF fit.raised THEN [slope |-> one, intercept |-> zero]
    ELSE [slope |-> fit.slope, intercept |-> fit.intercept]

\* the initial guess of lines 120-125
initial_guess(x, y) == guess_of(np_polyfit(x, y))

\* line 103: degenerate variance or extreme values
degenerate(x, y) ==
    \/ less(np_var(x), Q(1, 1000000))
    \/ less(np_var(y), Q(1, 1000000))
    \/ \E k \in 1..Len(x) : ~ isfinite(x[k]) \/ ~ isfinite(y[k])

\* lines 136-144: the point of the optimizer and its r2
deming_line(x, y, slope_deming, intercept_deming) ==
    [slope |-> slope_deming, intercept |-> intercept_deming,
     r_squared |-> sub(one, div(sum_of_squares(y, predict(x, slope_deming, intercept_deming)),
                                total_sum_of_squares(y)))]

\* lines 103-149: the line returned, and the return statement taken
deming_fit(x, y, result, exact) ==
    IF degenerate(x, y)
    THEN [line |-> simple_linear_regression(x, y, exact), returned |-> "line 118"]
    ELSE IF result.status # "raised"
    THEN [line |-> deming_line(x, y, result.x[1], result.x[2]), returned |-> "line 144"]
    ELSE [line |-> line_with_r2(x, y, initial_guess(x, y), exact), returned |-> "line 149"]

\* the four values returned, whether the clamp warning was printed and
\* which return statement was taken
deming_return(fit, lambda) ==
    [slope |-> fit.line.slope, intercept |-> fit.line.intercept,
     r_squared |-> fit.line.r_squared, lambda_used |-> lambda.lambda_used,
     warned |-> lambda.warned, returned |-> fit.returned]

(* deming_regression(x, y, lambda_ratio=lambda_ratio) for arrays of equal   *)
(* length. result is the outcome of minimize, exact the rounding of the     *)
(* predictions.                                                             *)
deming_regression(x, y, lambda_ratio, result, exact) ==
    deming_return(deming_fit(x, y, result, exact),
                  lambda_clamp(IF lambda_ratio = None THEN lambda_estimate(x, y)
                               ELSE lambda_ratio))

MaxPoints == 2

\* the values of the arrays
Floats == {one, Q(2, 1), nan, inf}

\* the values passed for lambda_ratio
LambdaRatios == {None, one, Q(1, 100), Q(100, 1)}

\* a call of deming_regression returns
call_deming_regression ==
    /\ pc = "deming"
    /\ LET guess == initial_guess(args.x, args.y)
       IN \E result \in MinimizeOutcomes(args.x, guess.slope, guess.intercept),
             exact \in BOOLEAN :
             locals' = [function |-> "deming_regression", result |-> result,
                        return |-> deming_regression(args.x, args.y, args.lambda_ratio,
                                                     result, exact)]
    /\ pc' = "return"
    /\ UNCHANGED <<matcher, ground_data, tempo_data, spatial_radius_km,
                   temporal_window_hours, row, matched_pairs, earlier, args>>

\* the variables of the matchers while a statistics function is checked
no_matcher ==
    /\ matcher = "none"
    /\ ground_data = <<>>
    /\ tempo_data = [r \in {} |-> <<>>]
    /\ spatial_radius_km = 0
    /\ temporal_window_hours = 0
    /\ row = 0
    /\ matched_pairs = <<>>
    /\ earlier = <<>>

InitDeming ==
    /\ no_matcher
    /\ pc = "deming"
    /\ \E n \in 0..MaxPoints :
          \E x \in [1..n -> Floats], y \in [1..n -> Floats], lambda_ratio \in LambdaRatios :
             args = [function |-> "deming_regression", x |-> x, y |-> y,
                     lambda_ratio |-> lambda_ratio]
    /\ locals = no_call

NextDeming == call_deming_regression

SpecDeming == InitDeming /\ [][NextDeming]_vars

----------------------------------------------------------------------------
(* loco_validation of advanced_validation.py                                *)

\* rows of one city in the tables of matched pairs
MaxCityPairs == 6

\* sample counts below which a fold is not evaluated
MinTrain == 10
MinTest == 5

\* the satellite reads this much above the station of the city
satellite_offset(city) ==
    CASE city = "Boston" -> 0
      [] city = "Lima" -> 1
      [] OTHER -> 2

\* n matched pairs of a city, ground_value 1..n
city_pairs(city, n) ==
    [k \in 1..n |-> [city |-> city, ground_value |-> Q(k, 1),
                     tempo_value |-> Q(k + satellite_offset(city), 1)]]

\* the orders in which the cities appear in a table
CityOrders == {o \in [1..3 -> Cities] : \A a, b \in 1..3 : a # b => o[a] # o[b]}

\* a city has no pair, or a number of pairs around the sample counts of a fold
CityPairCounts == {0} \cup ((MaxCityPairs - 2)..MaxCityPairs)

\* tables of matched pairs: the pairs of a city follow each other
MatchedTables ==
    {city_pairs(o[1], n[o[1]]) \o city_pairs(o[2], n[o[2]]) \o city_pairs(o[3], n[o[3]])
        : o \in CityOrders, n \in [Cities -> CityPairCounts]}

\* matched_data['city'].unique(): the cities in the order of first appearance
unique_cities(matched_data) ==
    LET first == SelectSeq(Indices(matched_data),
                    LAMBDA k : \A j \in 1..(k - 1) : matched_data[j].city # matched_data[k].city)
    IN [k \in 1..Len(first) |-> matched_data[first[k]].city]

\* a split that keeps the rows of the test city in the training data
loco_split_all(matched_data, test_city) ==
    [train |-> Indices(matched_data),
     test  |-> SelectSeq(Indices(matched_data), LAMBDA k : matched_data[k].city = test_city)]

\* lines 371-372: the labels of train_data and test_data
loco_split(matched_data, test_city) ==
    [train |-> SelectSeq(Indices(matched_data), LAMBDA k : matched_data[k].city # test_city),
     test  |-> SelectSeq(Indices(matched_data), LAMBDA k : matched_data[k].city = test_city)]

\* a column of the rows with the given labels
values_of(matched_data, labels, column) ==
    [k \in 1..Len(labels) |-> matched_data[labels[k]][column]]

\* sklearn's mean_squared_error
mean_squared_error(y_true, y_pred) ==
    div(sum_of_squares(y_true, y_pred), Q(Len(y_true), 1))

(* the sign of ((rmse_raw - rmse_calibrated) / rmse_raw) * 100: the square  *)
(* root is monotone, so the mean squared errors decide it; a raw error of 0 *)
(* gives nan or -inf                                                        *)
rmse_improvement(mse_raw, mse_calibrated) ==
    IF isnan(mse_raw) \/ isnan(mse_calibrated) THEN "nan"
    ELSE IF mse_raw = zero THEN (IF mse_calibrated = zero THEN "nan" ELSE "-inf")
    ELSE IF less(mse_calibrated, mse_raw) THEN "positive"
    ELSE IF less(mse_raw, mse_calibrated) THEN "negative"
    ELSE "zero"

\* dict[key] = value
setitem(dict, key, value) ==
    [c \in DOMAIN dict \cup {key} |-> IF c = key THEN value ELSE dict[c]]

\* lines 390-393 and 403-414: the entry of the city and the improvement
fold_entry(split, fit, mse_raw, mse_calibrated, improvement) ==
    [entry |-> [n_train |-> Len(split.train), n_test |-> Len(split.test),
                r2_train |-> fit.r_squared,
                mse_raw |-> mse_raw, mse_calibrated |-> mse_calibrated,
                rmse_improvement |-> improvement,
                calibration_slope |-> fit.slope,
                calibration_intercept |-> fit.intercept,
                train_rows |-> Range(split.train), test_rows |-> Range(split.test)],
     improvement |-> improvement]

fold_errors(split, fit, mse_raw, mse_calibrated) ==
    fold_entry(split, fit, mse_raw, mse_calibrated, rmse_improvement(mse_raw, mse_calibrated))

\* lines 385-391: the calibration applied to test_data
fold_test(split, fit, test_ground, test_tempo) ==
    fold_errors(split, fit, mean_squared_error(test_ground, test_tempo),
                mean_squared_error(test_ground, predict(test_tempo, fit.slope, fit.intercept)))

\* lines 374-375: the fold is left by `continue` below the sample counts
fold_skipped(split) == Len(split.train) < MinTrain \/ Len(split.test) < MinTest

\* the fold appended to rmse_improvements and stored in loco_results
fold_stored(test_city, loco_results, rmse_improvements, fold) ==
    [loco_results |-> setitem(loco_results, test_city, fold.entry),
     rmse_improvements |-> Append(rmse_improvements, fold.improvement)]

(* one iteration of the loop of lines 367-416 for test_city: the fold is    *)
(* left by `continue` below the sample counts; else the calibration `fit`   *)
(* trained on train_data is applied to test_data, the improvement appended  *)
(* and the entry of the city stored. train_rows and test_rows of the entry  *)
(* are the labels of the rows the fold used.                                *)
loco_fold(matched_data, test_city, split, loco_results, rmse_improvements, fit) ==
    IF fold_skipped(split)
    THEN [loco_results |-> loco_results, rmse_improvements |-> rmse_improvements]
    ELSE fold_stored(test_city, loco_results, rmse_improvements,
                     fold_test(split, fit,
                               values_of(matched_data, split.test, "ground_value"),
                               values_of(matched_data, split.test, "tempo_value")))

(* line 382: the calibrations deming_regression can return for the training *)
(* data, one for every outcome of the optimizer; none for a skipped fold.   *)
(* The training data of these tables is finite and not constant, so the     *)
(* rounding that decides r2_score on constant data plays no part.           *)
train_fits(split, train_ground, train_tempo, guess) ==
    IF fold_skipped(split) THEN {None}
    ELSE {deming_regression(train_ground, train_tempo, None, result, TRUE)
            : result \in MinimizeOutcomes(train_ground, guess.slope, guess.intercept)}

loco_fits(matched_data, split) ==
    train_fits(split, values_of(matched_data, split.train, "ground_value"),
               values_of(matched_data, split.train, "tempo_value"),
               IF fold_skipped(split) THEN None
               ELSE initial_guess(values_of(matched_data, split.train, "ground_value"),
                                  values_of(matched_data, split.train, "tempo_value")))

\* the labels of train_data and test_data for the city the loop takes next
next_split == loco_split(args.matched_data, locals.cities[locals.i + 1])

\* the loop of loco_validation takes the next city
loco_next_city ==
    /\ pc = "loco"
    /\ locals.i < Len(locals.cities)
    /\ \E split \in {next_split} :
          \E fit \in loco_fits(args.matched_data, split) :
             \E fold \in {loco_fold(args.matched_data, locals.cities[locals.i + 1], split,
                                    locals.loco_results, locals.rmse_improvements, fit)} :
                locals' = [locals EXCEPT !.i = @ + 1,
                                         !.loco_results = fold.loco_results,
                                         !.rmse_improvements = fold.rmse_improvements]
    /\ UNCHANGED <<matcher, ground_data, tempo_data, spatial_radius_km,
                   temporal_window_hours, pc, row, matched_pairs, earlier, args>>

\* lines 418-428: the summary is printed if a fold was evaluated; return
loco_return ==
    /\ pc = "loco"
    /\ locals.i = Len(locals.cities)
    /\ locals' = [locals EXCEPT !.summary = (locals.rmse_improvements # <<>>)]
    /\ pc' = "return"
    /\ UNCHANGED <<matcher, ground_data, tempo_data, spatial_radius_km,
                   temporal_window_hours, row, matched_pairs, earlier, args>>

InitLoco ==
    /\ no_matcher
    /\ pc = "loco"
    /\ \E matched_data \in MatchedTables :
          /\ args = [function |-> "loco_validation", matched_data |-> matched_data]
          /\ locals = [function |-> "loco_validation",
                       cities |-> unique_cities(matched_data), i |-> 0,
                       loco_results |-> [c \in {} |-> 0], rmse_improvements |-> <<>>,
                       summary |-> FALSE]

NextLoco ==
    \/ loco_next_city
    \/ loco_return

SpecLoco == InitLoco /\ [][NextLoco]_vars

----------------------------------------------------------------------------
(* apply_bias_correction of scientific_validation.py                        *)

\* pairs of one city in the tables given to apply_bias_correction
MaxGroupPairs == 11

\* a city gets its correction if it has more pairs than this
MinBiasPairs == 10

(* the differences ground_value - tempo_o3 along the pairs of a city: the   *)
(* ground reads uniformly 10 higher, the two agree, or the difference       *)
(* alternates between 8 and 12                                              *)
Differences == {"uniform", "none", "alternating"}

difference(kind, k) ==
    CASE kind = "uniform" -> 10
      [] kind = "none" -> 0
      [] OTHER -> IF k % 2 = 1 THEN 8 ELSE 12

\* n matched pairs of a city, tempo_o3 1..n
o3_pairs(city, n, kind) ==
    [k \in 1..n |-> [city |-> city, tempo_o3 |-> Q(k, 1),
                     ground_value |-> Q(k + difference(kind, k), 1)]]

BiasCities == {"Boston", "Lima"}

GroupPairCounts == {0} \cup ((MaxGroupPairs - 2)..MaxGroupPairs)

\* tables of matched pairs of two cities, in either order
O3Tables ==
    {o3_pairs(a, n[a], kind[a]) \o o3_pairs(b, n[b], kind[b])
        : <<a, b>> \in {p \in BiasCities \X BiasCities : p[1] # p[2]},
          n \in [BiasCities -> GroupPairCounts],
          kind \in [BiasCities -> Differences]}

(* matched_data.copy(): the column tempo_o3_corrected comes into being with *)
(* the first assignment, which leaves NaN in the rows it does not write     *)
copy_of(matched_data) ==
    [k \in 1..Len(matched_data) |->
        [city |-> matched_data[k].city, tempo_o3 |-> matched_data[k].tempo_o3,
         ground_value |-> matched_data[k].ground_value, tempo_o3_corrected |-> nan]]

\* city_data['ground_value'] - city_data['tempo_o3']
ground_minus_tempo(matched_data, labels) ==
    [k \in 1..Len(labels) |->
        sub(matched_data[labels[k]].ground_value, matched_data[labels[k]].tempo_o3)]

(* lines 257-264: the bias of a city is the median difference if the city   *)
(* has more than 10 pairs; else no bias is computed                         *)
city_bias(matched_data, labels) ==
    IF Len(labels) > MinBiasPairs
    THEN [computed |-> TRUE, bias |-> np_median(ground_minus_tempo(matched_data, labels))]
    ELSE [computed |-> FALSE, bias |-> zero]

(* one iteration of the loop of lines 253-264: the corrected column of the  *)
(* rows of the city is tempo_o3 + bias, or tempo_o3 where no bias is        *)
(* computed                                                                 *)
bias_step(matched_data, corrected_data, city) ==
    LET labels == SelectSeq(Indices(matched_data), LAMBDA k : matched_data[k].city = city)
        b      == city_bias(matched_data, labels)
    IN [bias |-> b,
        corrected_data |->
            [k \in 1..Len(corrected_data) |->
                IF matched_data[k].city = city
                THEN [corrected_data[k] EXCEPT !.tempo_o3_corrected =
                         IF b.computed THEN add(matched_data[k].tempo_o3, b.bias)
                         ELSE matched_data[k].tempo_o3]
                ELSE corrected_data[k]]]

\* the loop of apply_bias_correction takes the next city; printed holds the
\* bias the function prints for a city
bias_next_city ==
    /\ pc = "bias"
    /\ locals.i < Len(locals.cities)
    /\ LET city == locals.cities[locals.i + 1]
           step == bias_step(args.matched_data, locals.corrected_data, city)
       IN locals' = [locals EXCEPT
                        !.i = @ + 1,
                        !.corrected_data = step.corrected_data,
                        !.printed = IF step.bias.computed
                                    THEN setitem(@, city, step.bias.bias) ELSE @]
    /\ UNCHANGED <<matcher, ground_data, tempo_data, spatial_radius_km,
                   temporal_window_hours, pc, row, matched_pairs, earlier, args>>

\* line 266: return corrected_data
bias_return ==
    /\ pc = "bias"
    /\ locals.i = Len(locals.cities)
    /\ pc' = "return"
    /\ UNCHANGED <<matcher, ground_data, tempo_data, spatial_radius_km,
                   temporal_window_hours, row, matched_pairs, earlier, args, locals>>

InitBias ==
    /\ no_matcher
    /\ pc = "bias"
    /\ \E matched_data \in O3Tables :
          /\ args = [function |-> "apply_bias_correction", matched_data |-> matched_data]
          /\ locals = [function |-> "apply_bias_correction",
                       cities |-> unique_cities(matched_data), i |-> 0,
                       corrected_data |-> copy_of(matched_data),
                       printed |-> [c \in {} |-> zero]]

NextBias ==
    \/ bias_next_city
    \/ bias_return

SpecBias == InitBias /\ [][NextBias]_vars

----------------------------------------------------------------------------
(* permutation_test of advanced_validation.py                               *)

\* length of the arrays and number of permutations
MaxSamples == 3
MaxPermutations == 2

\* the values of the ground array and of the satellite array
GroundSamples == {one, Q(2, 1)}
TempoSamples == {one, Q(2, 1)}

\* the reorderings of 1..n
Reorderings(n) == {p \in [1..n -> 1..n] : \A a, b \in 1..n : a # b => p[a] # p[b]}

\* the arrays np.random.permutation(a) can return: a shuffled copy of a
np_random_permutation(a) == {[k \in 1..Len(a) |-> a[p[k]]] : p \in Reorderings(Len(a))}

\* a p-value that counts only the permutations above the observed R2
p_value_strict(r2_permuted, real_r2, n_permutations) ==
    div(Q(Cardinality({k \in 1..Len(r2_permuted) : less(real_r2, r2_permuted[k])}), 1),
        Q(n_permutations, 1))

(* line 336: np.sum(np.array(r2_permuted) >= real_r2) / n_permutations; a   *)
(* comparison with nan is False                                             *)
p_value(r2_permuted, real_r2, n_permutations) ==
    div(Q(Cardinality({k \in 1..Len(r2_permuted) : leq(real_r2, r2_permuted[k])}), 1),
        Q(n_permutations, 1))

(* one iteration of the loop of lines 330-333: ground is shuffled, tempo is *)
(* passed as it came; y_true and y_pred are the arguments of the call of    *)
(* r2_score. The values are passed unrounded, so a prediction that equals   *)
(* y_true does so exactly.                                                  *)
permute ==
    /\ pc = "permutation"
    /\ Len(locals.r2_permuted) < args.n_permutations
    /\ \E ground_shuffled \in np_random_permutation(args.ground) :
          locals' = [locals EXCEPT
                        !.y_true = ground_shuffled,
                        !.y_pred = args.tempo,
                        !.r2_permuted = Append(@, r2_score(ground_shuffled, args.tempo, TRUE))]
    /\ UNCHANGED <<matcher, ground_data, tempo_data, spatial_radius_km,
                   temporal_window_hours, pc, row, matched_pairs, earlier, args>>

\* lines 336-355: the p-value is computed and the result returned
permutation_return ==
    /\ pc = "permutation"
    /\ Len(locals.r2_permuted) = args.n_permutations
    /\ locals' = [locals EXCEPT
                     !.return = [real_r2 |-> locals.real_r2,
                                 p_value |-> p_value(locals.r2_permuted, locals.real_r2,
                                                     args.n_permutations),
                                 permuted_r2_mean |-> np_mean(locals.r2_permuted)]]
    /\ pc' = "return"
    /\ UNCHANGED <<matcher, ground_data, tempo_data, spatial_radius_km,
                   temporal_window_hours, row, matched_pairs, earlier, args>>

(* permutation_test(ground, tempo, n_permutations) was called on two arrays *)
(* of the same length, which main takes from a table that is not empty, and *)
(* has computed real_r2                                                     *)
InitPermutation ==
    /\ no_matcher
    /\ pc = "permutation"
    /\ \E n \in 1..MaxSamples, n_permutations \in 1..MaxPermutations :
          \E ground \in [1..n -> GroundSamples], tempo \in [1..n -> TempoSamples] :
             /\ args = [function |-> "permutation_test", ground |-> ground,
                        tempo |-> tempo, n_permutations |-> n_permutations]
             /\ locals = [function |-> "permutation_test",
                          real_r2 |-> r2_score(ground, tempo, TRUE),
                          r2_permuted |-> <<>>, y_true |-> ground, y_pred |-> tempo,
                          return |-> None]

NextPermutation ==
    \/ permute
    \/ permutation_return

SpecPermutation == InitPermutation /\ [][NextPermutation]_vars

----------------------------------------------------------------------------
(* quantile_mapping of advanced_validation.py                               *)

\* v[lo] + (v[hi] - v[lo]) * frac
lerp(lo_value, hi_value, frac) == add(lo_value, mul(sub(hi_value, lo_value), frac))

(* np.quantile(a, num / den) of a non-empty array of finite values, method  *)
(* 'linear': the value at position num / den * (n - 1) of the sorted array, *)
(* interpolated between its two neighbours                                  *)
quantile_of(v, num, den) ==
    lerp(v[(num * (Len(v) - 1)) \div den + 1],
         v[IF (num * (Len(v) - 1)) % den = 0 THEN (num * (Len(v) - 1)) \div den + 1
           ELSE (num * (Len(v) - 1)) \div den + 2],
         Q((num * (Len(v) - 1)) % den, den))

\* lines 295-299: np.quantile(a, [0.1, 0.5, 0.9])
np_quantile(a) ==
    <<quantile_of(SortSeq(a, less), 1, 10), quantile_of(SortSeq(a, less), 1, 2),
      quantile_of(SortSeq(a, less), 9, 10)>>

(* np.interp(x, xp, fp) for xp[1] < x <= xp[3] and xp not decreasing: the   *)
(* line through the two points of the segment x lies in                     *)
np_interp(x, xp, fp) ==
    IF leq(x, xp[2])
    THEN add(fp[1], div(mul(sub(x, xp[1]), sub(fp[2], fp[1])), sub(xp[2], xp[1])))
    ELSE add(fp[2], div(mul(sub(x, xp[2]), sub(fp[3], fp[2])), sub(xp[3], xp[2])))

(* lines 302-312: the values are numpy floats, so a division by 0 gives nan *)
(* or an infinity with a warning and raises nothing                         *)
map_value(x, ground_quantiles, tempo_quantiles) ==
    IF leq(x, tempo_quantiles[1])
    THEN mul(ground_quantiles[1], div(x, tempo_quantiles[1]))
    ELSE IF leq(x, tempo_quantiles[3])
    THEN np_interp(x, tempo_quantiles, ground_quantiles)
    ELSE add(ground_quantiles[3],
             mul(div(sub(ground_quantiles[3], ground_quantiles[2]),
                     sub(tempo_quantiles[3], tempo_quantiles[2])),
                 sub(x, tempo_quantiles[3])))

\* lines 315-321: the mapped array and the quantiles
mapping(tempo, ground_quantiles, tempo_quantiles) ==
    [tempo_mapped |-> [k \in 1..Len(tempo) |->
                          map_value(tempo[k], ground_quantiles, tempo_quantiles)],
     ground_quantiles |-> ground_quantiles, tempo_quantiles |-> tempo_quantiles]

quantile_mapping(ground, tempo) == mapping(tempo, np_quantile(ground), np_quantile(tempo))

MaxValues == 3

\* the values of the arrays: finite numbers, 0 among them
QuantileValues == {zero, one, Q(3, 1)}

\* a call of quantile_mapping returns
call_quantile_mapping ==
    /\ pc = "quantile"
    /\ locals' = [function |-> "quantile_mapping",
                  return |-> quantile_mapping(args.ground, args.tempo)]
    /\ pc' = "return"
    /\ UNCHANGED <<matcher, ground_data, tempo_data, spatial_radius_km,
                   temporal_window_hours, row, matched_pairs, earlier, args>>

\* quantile_mapping(ground, tempo) was called on two columns of a table that
\* is not empty
InitQuantile ==
    /\ no_matcher
    /\ pc = "quantile"
    /\ \E n \in 1..MaxValues :
          \E ground \in [1..n -> QuantileValues], tempo \in [1..n -> QuantileValues] :
             args = [function |-> "quantile_mapping", ground |-> ground, tempo |-> tempo]
    /\ locals = no_call

NextQuantile == call_quantile_mapping

SpecQuantile == InitQuantile /\ [][NextQuantile]_vars

----------------------------------------------------------------------------
(* compute_comprehensive_metrics of scientific_validation.py, called by     *)
(* main on the table and on the result of apply_bias_correction             *)

\* a city needs this many pairs for its metrics, a region this many
MinMetricsPairs == 5
MinRegionPairs == 10

\* two cities of the NYC region
MetricsCities == {"Boston", "Philadelphia"}

\* a city has no pair, or a number of pairs around the sample counts
MetricsPairCounts == {0, MinMetricsPairs - 1, MinMetricsPairs, MaxGroupPairs}

\* the table with the satellite value of its first row missing
first_missing(table) ==
    [k \in 1..Len(table) |-> IF k = 1 THEN [table[k] EXCEPT !.tempo_o3 = nan] ELSE table[k]]

(* tables of matched pairs of two cities, in either order; the function is  *)
(* also given tables that hold a missing satellite value                    *)
complete_tables ==
    {o3_pairs(a, n[a], kind[a]) \o o3_pairs(b, n[b], kind[b])
        : <<a, b>> \in {p \in MetricsCities \X MetricsCities : p[1] # p[2]},
          n \in [MetricsCities -> MetricsPairCounts],
          kind \in [MetricsCities -> {"uniform", "alternating"}]}

MetricsTables ==
    complete_tables \cup {first_missing(t) : t \in complete_tables \ {<<>>}}

\* the column 'region' of a pair: the matcher derives it from the city
region_of(pair) == tempo_region_of(pair.city)

\* the values of the array are all finite
all_finite(a) == \A k \in 1..Len(a) : isfinite(a[k])

\* np.mean(np.abs(y_true - y_pred))
mean_absolute_error(y_true, y_pred) ==
    np_mean([k \in 1..Len(y_true) |-> absolute(sub(y_true[k], y_pred[k]))])

\* the array holds one value only
is_constant(a) == \A k \in 1..Len(a) : a[k] = a[1]

(* lines 304-318: 1000 resamples with replacement, of which those with more *)
(* than one distinct value on both sides give an R2; the interval is the    *)
(* percentiles of these, or nan, nan when there is none. A resample of an   *)
(* array that is not constant is taken to vary at least once in 1000.       *)
bootstrap_ci(ground_values, values) ==
    IF is_constant(ground_values) \/ is_constant(values) THEN "nan" ELSE "bootstrap"

(* lines 297-322 and 357-364: the metrics of one array of satellite values  *)
(* against ground. r2_score raises ValueError on a value that is not        *)
(* finite, and the bare except stores 0 for every metric. mse is the square *)
(* of rmse; the rank correlation and the averages of distance and time      *)
(* difference, which are stored beside, are left out.                       *)
group_metrics(ground_values, values) ==
    IF all_finite(ground_values) /\ all_finite(values)
    THEN [r2 |-> r2_score(ground_values, values, TRUE),
          mse |-> mean_squared_error(ground_values, values),
          mae |-> mean_absolute_error(ground_values, values),
          bias |-> np_mean([k \in 1..Len(values) |-> sub(values[k], ground_values[k])]),
          r2_ci |-> bootstrap_ci(ground_values, values),
          n_samples |-> Len(ground_values)]
    ELSE [r2 |-> zero, mse |-> zero, mae |-> zero, bias |-> zero, r2_ci |-> "nan",
          n_samples |-> Len(ground_values)]

\* a | b of two dicts
updated(a, b) ==
    [key \in DOMAIN a \cup DOMAIN b |-> IF key \in DOMAIN b THEN b[key] ELSE a[key]]

\* lines 296 and 356: the two arrays of satellite values of a group
Suffixes == {"_original", "_corrected"}

suffix_values(matched_data, corrected_data, labels, suffix) ==
    IF suffix = "_original" THEN values_of(matched_data, labels, "tempo_o3")
    ELSE values_of(corrected_data, labels, "tempo_o3_corrected")

\* the keys '<city><suffix>' and '<region>_region<suffix>' of a group
group_keys(name, level) == {[name |-> name, level |-> level, suffix |-> s] : s \in Suffixes}

\* lines 357-375: the metrics of a region have no interval
region_entry(metrics) == [field \in DOMAIN metrics \ {"r2_ci"} |-> metrics[field]]

level_entry(level, metrics) == IF level = "city" THEN metrics ELSE region_entry(metrics)

\* lines 324-339 and 366-375: the entries of a group of rows
group_entries(matched_data, corrected_data, labels, name, level) ==
    [key \in group_keys(name, level) |->
        level_entry(level,
            group_metrics(values_of(matched_data, labels, "ground_value"),
                          suffix_values(matched_data, corrected_data, labels, key.suffix)))]

\* the keys of the entries of a group whose try block raised
raised_keys(matched_data, corrected_data, labels, name, level) ==
    {key \in group_keys(name, level) :
        ~ (/\ all_finite(values_of(matched_data, labels, "ground_value"))
           /\ all_finite(suffix_values(matched_data, corrected_data, labels, key.suffix)))}

\* the labels of the rows of a region
region_rows(matched_data, region) ==
    SelectSeq(Indices(matched_data), LAMBDA k : region_of(matched_data[k]) = region)

\* lines 345-350: the regions of the table that have the pairs for metrics
measured_regions(matched_data) ==
    {region \in {region_of(matched_data[k]) : k \in 1..Len(matched_data)} :
        Len(region_rows(matched_data, region)) >= MinRegionPairs}

\* line 606: main passes the table and the result of apply_bias_correction
call_compute_comprehensive_metrics ==
    /\ pc = "return"
    /\ locals.function = "apply_bias_correction"
    /\ locals' = [function |-> "compute_comprehensive_metrics",
                  corrected_data |-> locals.corrected_data,
                  printed |-> locals.printed,
                  cities |-> unique_cities(args.matched_data), i |-> 0,
                  validation_metrics |-> <<>>, raised |-> {}]
    /\ pc' = "metrics"
    /\ UNCHANGED <<matcher, ground_data, tempo_data, spatial_radius_km,
                   temporal_window_hours, row, matched_pairs, earlier, args>>

(* one iteration of the loop of lines 281-341: a city of fewer than 5 pairs *)
(* is left by `continue`; raised holds the keys whose try block raised      *)
metrics_next_city ==
    /\ pc = "metrics"
    /\ locals.i < Len(locals.cities)
    /\ \E city \in {locals.cities[locals.i + 1]} :
          \E labels \in {city_rows(args.matched_data, city)} :
             IF Len(labels) < MinMetricsPairs
             THEN locals' = [locals EXCEPT !.i = @ + 1]
             ELSE locals' = [locals EXCEPT
                     !.i = @ + 1,
                     !.validation_metrics =
                         updated(@, group_entries(args.matched_data, locals.corrected_data,
                                                  labels, city, "city")),
                     !.raised = @ \cup raised_keys(args.matched_data, locals.corrected_data,
                                                   labels, city, "city")]
    /\ UNCHANGED <<matcher, ground_data, tempo_data, spatial_radius_km,
                   temporal_window_hours, pc, row, matched_pairs, earlier, args>>

\* the entries and the raised keys of the loop of lines 345-375
region_metrics(matched_data, corrected_data, validation_metrics, raised, regions) ==
    [validation_metrics |->
        [key \in DOMAIN validation_metrics
                 \cup UNION {group_keys(region, "region") : region \in regions} |->
            IF key.level = "region"
            THEN group_entries(matched_data, corrected_data,
                               region_rows(matched_data, key.name), key.name, "region")[key]
            ELSE validation_metrics[key]],
     raised |-> raised \cup UNION {raised_keys(matched_data, corrected_data,
                                               region_rows(matched_data, region),
                                               region, "region") : region \in regions}]

\* lines 343-377: the metrics of the regions, and the return
metrics_return ==
    /\ pc = "metrics"
    /\ locals.i = Len(locals.cities)
    /\ \E done \in {region_metrics(args.matched_data, locals.corrected_data,
                                   locals.validation_metrics, locals.raised,
                                   measured_regions(args.matched_data))} :
          locals' = [locals EXCEPT !.validation_metrics = done.validation_metrics,
                                   !.raised = done.raised]
    /\ pc' = "return"
    /\ UNCHANGED <<matcher, ground_data, tempo_data, spatial_radius_km,
                   temporal_window_hours, row, matched_pairs, earlier, args>>

\* main of scientific_validation.py has a table of matched pairs and calls
\* apply_bias_correction
InitMetrics ==
    /\ no_matcher
    /\ pc = "bias"
    /\ \E matched_data \in MetricsTables :
          /\ args = [function |-> "main", matched_data |-> matched_data]
          /\ locals = [function |-> "apply_bias_correction",
                       cities |-> unique_cities(matched_data), i |-> 0,
                       corrected_data |-> copy_of(matched_data),
                       printed |-> [c \in {} |-> zero]]

NextMetrics ==
    \/ bias_next_city
    \/ bias_return
    \/ call_compute_comprehensive_metrics
    \/ metrics_next_city
    \/ metrics_return

SpecMetrics == InitMetrics /\ [][NextMetrics]_vars

----------------------------------------------------------------------------
(* The run manifest and the report of advanced_validation.py                *)

\* lines 42-56: the configuration the manifest records
create_run_manifest ==
    [spatial_radius_km |-> 20, temporal_window_hours |-> 1,
     sensitivity_radii |-> <<10, 20, 30>>, sensitivity_windows |-> <<1, 3, 6>>,
     bootstrap_iterations |-> 1000, permutation_iterations |-> 1000, random_seed |-> 42]

\* lines 1160-1170: the summary and the manifest of the report
report_of(matched_data, manifest) ==
    [validation_summary |-> [total_pairs |-> Len(matched_data),
                             spatial_radius_km |-> 20, temporal_window_hours |-> 1],
     run_manifest |-> manifest]

(* line 1619: main, which returned at line 1494 if there was no pair, calls *)
(* create_comprehensive_report with the pairs of the matcher and the        *)
(* manifest of line 1387                                                    *)
create_comprehensive_report ==
    /\ matcher = "region"
    /\ finished
    /\ matched_pairs # <<>>
    /\ locals.function = "main"
    /\ locals' = [function |-> "create_comprehensive_report",
                  manifest |-> locals.manifest,
                  report |-> report_of(matched_pairs, locals.manifest)]
    /\ pc' = "return"
    /\ UNCHANGED <<matcher, ground_data, tempo_data, spatial_radius_km,
                   temporal_window_hours, row, matched_pairs, earlier, args>>

\* main of advanced_validation.py has created the manifest and loaded the
\* tables
InitReport ==
    /\ matcher = "region"
    /\ ground_data \in SeqsUpTo(RegionGroundRows(RegionParameters), MaxGround)
    /\ tempo_data \in RegionTempoDicts
    /\ spatial_radius_km = RegionRadiusKm
    /\ temporal_window_hours = RegionWindowHours
    /\ pc = "call"
    /\ row = 0
    /\ matched_pairs = <<>>
    /\ earlier = <<>>
    /\ args = no_call
    /\ locals = [function |-> "main", manifest |-> create_run_manifest]

NextReport ==
    \/ perform_spatial_temporal_matching
    \/ match_region_temporally_and_spatially
    \/ create_comprehensive_report

SpecReport == InitReport /\ [][NextReport]_vars

----------------------------------------------------------------------------
(* station_level_analysis and event_aware_stratification of                 *)
(* advanced_validation.py, which main calls on the pairs of the matcher     *)

\* the sample counts of lines 441, 452 and 494
MinStationCityPairs == 20
MinStationPairs == 3
MinStratumPairs == 10

\* the number of rows that satisfy a condition
count_rows(matched_data, Condition(_)) ==
    Cardinality({k \in 1..Len(matched_data) : Condition(matched_data[k])})

(* lines 438-462: the cities of 20 pairs or more with the number of their   *)
(* stations of more than 3 pairs; the station_id column is written to       *)
(* city_data, a copy that boolean indexing made, and the table is left as   *)
(* it is. The biases of the stations are stored beside.                     *)
station_results_of(matched_data) ==
    [city \in {c \in {matched_data[k].city : k \in 1..Len(matched_data)} :
                 /\ count_rows(matched_data, LAMBDA r : r.city = c) >= MinStationCityPairs
                 /\ \E k \in 1..Len(matched_data) :
                       /\ matched_data[k].city = c
                       /\ count_rows(matched_data, LAMBDA r :
                              r.city = c /\ r.ground_lat = matched_data[k].ground_lat)
                          > MinStationPairs} |->
        [n_stations |->
            Cardinality({matched_data[k].ground_lat : k \in
                {j \in 1..Len(matched_data) :
                    /\ matched_data[j].city = city
                    /\ count_rows(matched_data, LAMBDA r :
                           r.city = city /\ r.ground_lat = matched_data[j].ground_lat)
                       > MinStationPairs}})]]

\* pd.cut(ground_value, bins=[0, 50, 100, 200, 500]): intervals closed on
\* the right, NaN outside
aqi_level(ground_value) ==
    IF 0 < ground_value /\ ground_value <= 50 THEN "Good"
    ELSE IF 50 < ground_value /\ ground_value <= 100 THEN "Moderate"
    ELSE IF 100 < ground_value /\ ground_value <= 200 THEN "Unhealthy"
    ELSE IF 200 < ground_value /\ ground_value <= 500 THEN "Very Unhealthy"
    ELSE "NaN"

(* lines 474-486: the columns the function adds to the table it was given;  *)
(* hours count from 2025-06-01 00:00, a Sunday                              *)
stratified(pair) ==
    [column \in DOMAIN pair \cup {"hour", "dayofweek", "is_weekend", "is_daytime", "aqi_level"} |->
        CASE column = "ground_time" -> to_datetime(pair.ground_time)
          [] column = "hour" -> pair.ground_time.hour % 24
          [] column = "dayofweek" -> (6 + pair.ground_time.hour \div 24) % 7
          [] column = "is_weekend" -> (6 + pair.ground_time.hour \div 24) % 7 \in {5, 6}
          [] column = "is_daytime" ->
                 6 <= pair.ground_time.hour % 24 /\ pair.ground_time.hour % 24 <= 18
          [] column = "aqi_level" -> aqi_level(pair.ground_value)
          [] OTHER -> pair[column]]

\* lines 491-492, 503-504 and 516: the rows of a stratum
in_stratum(stratum, r) ==
    CASE stratum = "Daytime" -> r.is_daytime
      [] stratum = "Nighttime" -> ~ r.is_daytime
      [] stratum = "Weekend" -> r.is_weekend
      [] stratum = "Weekday" -> ~ r.is_weekend
      [] stratum = "AQI_Good" -> r.aqi_level = "Good"
      [] stratum = "AQI_Moderate" -> r.aqi_level = "Moderate"
      [] stratum = "AQI_Unhealthy" -> r.aqi_level = "Unhealthy"
      [] OTHER -> r.aqi_level = "Very Unhealthy"

\* lines 488-525: the strata of more than 10 pairs with their sample counts;
\* r2 and rmse are stored beside
stratification_results_of(matched_data) ==
    [stratum \in {s \in {"Daytime", "Nighttime", "Weekend", "Weekday", "AQI_Good",
                         "AQI_Moderate", "AQI_Unhealthy", "AQI_Very Unhealthy"} :
                    count_rows(matched_data, LAMBDA r : in_stratum(s, r)) > MinStratumPairs} |->
        [n |-> count_rows(matched_data, LAMBDA r : in_stratum(stratum, r))]]

(* line 1595: main, which returned at line 1494 if there was no pair, calls *)
(* station_level_analysis; returned_by_matcher keeps the table as the       *)
(* matcher returned it                                                      *)
station_level_analysis ==
    /\ matcher = "region"
    /\ finished
    /\ matched_pairs # <<>>
    /\ locals.function = "main"
    /\ locals' = [function |-> "station_level_analysis",
                  returned_by_matcher |-> matched_pairs,
                  station_results |-> station_results_of(matched_pairs)]
    /\ UNCHANGED <<matcher, ground_data, tempo_data, spatial_radius_km,
                   temporal_window_hours, pc, row, matched_pairs, earlier, args>>

\* line 1598: event_aware_stratification writes its columns to the table of
\* main
event_aware_stratification ==
    /\ locals.function = "station_level_analysis"
    /\ matched_pairs' = [k \in 1..Len(matched_pairs) |-> stratified(matched_pairs[k])]
    /\ locals' = [function |-> "event_aware_stratification",
                  returned_by_matcher |-> locals.returned_by_matcher,
                  stratification_results |->
                      stratification_results_of(
                          [k \in 1..Len(matched_pairs) |-> stratified(matched_pairs[k])])]
    /\ pc' = "return"
    /\ UNCHANGED <<matcher, ground_data, tempo_data, spatial_radius_km,
                   temporal_window_hours, row, earlier, args>>

NextStages ==
    \/ perform_spatial_temporal_matching
    \/ match_region_temporally_and_spatially
    \/ station_level_analysis
    \/ event_aware_stratification

SpecStages == InitReport /\ [][NextStages]_vars

----------------------------------------------------------------------------
(* create_sensitivity_analysis of scientific_validation.py, which main      *)
(* calls on the pairs of scientific_spatial_temporal_matching               *)

\* lines 431-432: the grid of the analysis
spatial_radii == {10, 20, 30}
temporal_windows == {1, 3, 6}

(* lines 173-189 of the matcher on the table and the dict it is given: the  *)
(* rows of the cities that have a region and a pool in the dict, which are  *)
(* the rows the per-row loop is entered for                                 *)
rows_with_pool(table, dict) ==
    SelectSeq(table, LAMBDA r :
        /\ tempo_region_of(r.city) # "none"
        /\ tempo_region_of(r.city) \in DOMAIN dict)

(* lines 436-457: for every radius and window the matcher is called again   *)
(* with the matched pairs as its ground table and {} as its TEMPO dict, so  *)
(* the per-row loop is entered for no row and temp_matched is empty; an     *)
(* entry is appended only if len(temp_matched) > 0                          *)
sensitivity_results_of(matched_data) ==
    {[spatial_radius_km |-> radius,
      temporal_window_hours |-> window,
      n_matches |-> Len(rows_with_pool(matched_data, <<>>))] :
        <<radius, window>> \in
            {rw \in spatial_radii \X temporal_windows :
                Len(rows_with_pool(matched_data, <<>>)) > 0}}

(* line 612: main calls create_sensitivity_analysis(matched_data); with no  *)
(* pair, main has replaced the table by random numbers at lines 588-599     *)
create_sensitivity_analysis ==
    /\ matcher = "scientific"
    /\ finished
    /\ matched_pairs # <<>>
    /\ locals = no_call
    /\ locals' = [function |-> "create_sensitivity_analysis",
                  sensitivity_results |-> sensitivity_results_of(matched_pairs)]
    /\ UNCHANGED <<matcher, ground_data, tempo_data, spatial_radius_km,
                   temporal_window_hours, pc, row, matched_pairs, earlier, args>>

\* line 586: main calls the matcher with its default radius and window
InitSensitivity ==
    /\ matcher = "scientific"
    /\ ground_data \in SeqsUpTo(GroundRows(Cities, CityGroupedParameters), MaxGround)
    /\ tempo_data \in TempoDicts
    /\ spatial_radius_km = 20
    /\ temporal_window_hours = 1
    /\ pc = "loop"
    /\ row = 0
    /\ matched_pairs = <<>>
    /\ earlier = <<>>
    /\ args = no_call
    /\ locals = no_call

NextSensitivity ==
    \/ scientific_spatial_temporal_matching
    \/ create_sensitivity_analysis

SpecSensitivity == InitSensitivity /\ [][NextSensitivity]_vars

----------------------------------------------------------------------------
(* loco_validation on tables in which the satellite differs from the        *)
(* station by one constant in every pair                                    *)

\* the constants c of ground = satellite + c
Offsets == {0 - 2, 1}

\* n matched pairs of a city, ground_value 1..n = tempo_value + c
offset_pairs(city, n, c) ==
    [k \in 1..n |-> [city |-> city, ground_value |-> Q(k, 1),
                     tempo_value |-> Q(k - c, 1)]]

\* tables of matched pairs with one constant: the pairs of a city follow
\* each other
OffsetTables ==
    {offset_pairs(o[1], n[o[1]], c) \o offset_pairs(o[2], n[o[2]], c)
            \o offset_pairs(o[3], n[o[3]], c)
        : o \in CityOrders, n \in [Cities -> CityPairCounts], c \in Offsets}

InitCalibration ==
    /\ no_matcher
    /\ pc = "loco"
    /\ \E matched_data \in OffsetTables :
          /\ args = [function |-> "loco_validation", matched_data |-> matched_data]
          /\ locals = [function |-> "loco_validation",
                       cities |-> unique_cities(matched_data), i |-> 0,
                       loco_results |-> [c \in {} |-> 0], rmse_improvements |-> <<>>,
                       summary |-> FALSE]

SpecCalibration == InitCalibration /\ [][NextLoco]_vars

----------------------------------------------------------------------------
(* The stochastic stages of main of advanced_validation.py: permutation_test *)
(* and the bootstrap of create_agreement_summary_table. Both draw from the  *)
(* generator of the numpy module, which main seeds once at line 1503.       *)

\* the generator repeats after Period words, each in 0..WordMax
Period == 3
WordMax == 2

\* line 669: the sample count from which the interval is a bootstrap interval
BootstrapMin == 20

\* the resamples of the bootstrap (range(100) at line 672)
Resamples == 2

\* the sequences of words a seed can stand for
Streams == [1..Period -> 0..WordMax]

\* a draw of an integer in 0..max from the generator at a position
random_interval(stream, position, max) == stream[(position % Period) + 1] % (max + 1)

\* a[i], a[j] = a[j], a[i]
swap(a, i, j) ==
    [k \in 1..Len(a) |-> IF k = i THEN a[j] ELSE IF k = j THEN a[i] ELSE a[k]]

(* the shuffle of np.random.permutation: from the last element down to the  *)
(* second, the element is exchanged with one drawn among those up to it     *)
RECURSIVE shuffle(_, _, _, _)
shuffle(a, stream, position, i) ==
    IF i < 2 THEN a
    ELSE shuffle(swap(a, i, 1 + random_interval(stream, position, i - 1)),
                 stream, position + 1, i - 1)

\* line 331: np.random.permutation(ground) with the generator at a position
permutation_from(a, stream, position) == shuffle(a, stream, position, Len(a))

\* line 673: np.random.choice(n, n, replace=True)
np_random_choice(n, stream, position) ==
    [k \in 1..n |-> 1 + random_interval(stream, position + k - 1, n - 1)]

\* a[indices]
fancy_index(a, indices) == [k \in 1..Len(indices) |-> a[indices[k]]]

\* lines 329-333: the R2 of every permutation
r2_permuted_from(ground, tempo, stream, position, n_permutations) ==
    [p \in 1..n_permutations |->
        r2_score(permutation_from(ground, stream, position + (p - 1) * (Len(ground) - 1)),
                 tempo, TRUE)]

(* lines 323-355: permutation_test(ground, tempo, n_permutations) with the  *)
(* generator at a position: the p-value and the position it leaves          *)
permutation_test_from(ground, tempo, n_permutations, stream, position) ==
    [p_value |-> p_value(r2_permuted_from(ground, tempo, stream, position, n_permutations),
                         r2_score(ground, tempo, TRUE), n_permutations),
     random_state |-> position + n_permutations * (Len(ground) - 1)]

\* lines 671-678: the R2 of every resample
r2_bootstrap_from(ground, tempo_calibrated, stream, position) ==
    [b \in 1..Resamples |->
        r2_score(fancy_index(ground, np_random_choice(Len(ground), stream,
                                                     position + (b - 1) * Len(ground))),
                 fancy_index(tempo_calibrated, np_random_choice(Len(ground), stream,
                                                     position + (b - 1) * Len(ground))),
                 TRUE)]

\* line 679: np.percentile(r2_bootstrap, 2.5) and np.percentile(r2_bootstrap, 97.5)
percentiles(r2_bootstrap) ==
    <<quantile_of(SortSeq(r2_bootstrap, less), 25, 1000),
      quantile_of(SortSeq(r2_bootstrap, less), 975, 1000)>>

(* lines 669-679 for a city of 20 pairs or more with the generator at a     *)
(* position: the interval and the position it leaves                        *)
bootstrap_from(ground, tempo_calibrated, stream, position) ==
    [r2_ci |-> percentiles(r2_bootstrap_from(ground, tempo_calibrated, stream, position)),
     random_state |-> position + Resamples * Len(ground)]

\* the satellite values of the table
TempoColumns ==
    {[k \in 1..BootstrapMin |-> Q(k, 1)],
     [k \in 1..BootstrapMin |->
         Q(IF k = 1 THEN 1 ELSE IF k = BootstrapMin THEN 2 ELSE k + 1, 1)],
     [k \in 1..BootstrapMin |-> Q(IF k % 2 = 0 THEN k - 1 ELSE k + 1, 1)]}

\* the intercepts of the calibration of the table
Intercepts == {zero, one}

(* line 1588: main calls permutation_test on the columns of the table; the  *)
(* generator is left where the calls of np.random.permutation took it       *)
permutation_test ==
    /\ pc = "stages"
    /\ locals.perm_results = None
    /\ \E result \in {permutation_test_from(args.ground, args.tempo, args.n_permutations,
                                            args.stream, locals.random_state)} :
          locals' = [locals EXCEPT !.perm_results = result.p_value,
                                   !.random_state = result.random_state]
    /\ UNCHANGED <<matcher, ground_data, tempo_data, spatial_radius_km,
                   temporal_window_hours, pc, row, matched_pairs, earlier, args>>

(* line 1604: main calls create_agreement_summary_table, which bootstraps   *)
(* the R2 of the city; the generator is left where the calls of             *)
(* np.random.choice took it                                                 *)
create_agreement_summary_table ==
    /\ pc = "stages"
    /\ locals.r2_ci = None
    /\ \E result \in {bootstrap_from(args.ground, args.tempo_calibrated,
                                     args.stream, locals.random_state)} :
          locals' = [locals EXCEPT !.r2_ci = result.r2_ci,
                                   !.random_state = result.random_state]
    /\ UNCHANGED <<matcher, ground_data, tempo_data, spatial_radius_km,
                   temporal_window_hours, pc, row, matched_pairs, earlier, args>>

(* line 1503: np.random.seed(manifest['random_seed']) has set the generator *)
(* to the start of the stream of the seed; the table has one city of 20     *)
(* pairs, ground_value 1..20                                                *)
InitStochastic ==
    /\ no_matcher
    /\ pc = "stages"
    /\ \E stream \in Streams, tempo \in TempoColumns, intercept \in Intercepts,
          n_permutations \in 1..MaxPermutations :
          args = [function |-> "main", stream |-> stream,
                  ground |-> [k \in 1..BootstrapMin |-> Q(k, 1)],
                  tempo |-> tempo,
                  tempo_calibrated |-> predict(tempo, one, intercept),
                  n_permutations |-> n_permutations]
    /\ locals = [function |-> "main", random_state |-> 0,
                 perm_results |-> None, r2_ci |-> None]

NextStochastic ==
    \/ permutation_test
    \/ create_agreement_summary_table

SpecStochastic == InitStochastic /\ [][NextStochastic]_vars

----------------------------------------------------------------------------
(* Properties of the parameterised matchers (specification Spec) *)

PairIndices == 1..Len(matched_pairs)

\* the ground row and the region pool a pair of a parameterised matcher was built from
GroundOf(pair) == ground_data[pair.ground_row]
PoolOf(pair) == tempo_data[pair.region]

\* pixel k of the pool lies within the radius and within the window of row g
InTolerance(pool, g, k) ==
    /\ Abs(pool[k].latitude - g.Latitude) <= spatial_radius_km
    /\ Abs(pool[k].time_utc - g.time_utc) <= temporal_window_hours

\* the weight of the time difference in the score of each script
Weight == IF matcher = "improved" THEN 5 ELSE 2

Score(pool, g, k) ==
    Abs(pool[k].latitude - g.Latitude) + Abs(pool[k].time_utc - g.time_utc) * Weight

(* C1: every pair emitted by a parameterised matcher has distance_km <=     *)
(* spatial_radius_km and time_diff_hours <= temporal_window_hours           *)
C1_MatcherTolerance ==
    matcher \in ParameterisedMatchers =>
        \A i \in PairIndices :
            /\ matched_pairs[i].distance_km <= spatial_radius_km
            /\ matched_pairs[i].time_diff_hours <= temporal_window_hours

\* a pair was emitted from a pool that also holds a pixel beyond the radius
\* and a pixel beyond the window
C1_Witness ==
    /\ matcher \in ParameterisedMatchers
    /\ \E i \in PairIndices :
          LET pool == PoolOf(matched_pairs[i])
              g    == GroundOf(matched_pairs[i])
          IN \E a, b \in 1..Len(pool) :
                /\ Abs(pool[a].latitude - g.Latitude) > spatial_radius_km
                /\ Abs(pool[b].time_utc - g.time_utc) > temporal_window_hours

\* the rows the loops of a city-grouped matcher have reached so far
Visited == {groupby_city(ground_data)[j] : j \in 1..row}

\* the city of row lab maps to a region that has a pool, and a pixel of that
\* pool lies within the radius and within the window
HasCandidate(lab) ==
    LET g      == ground_data[lab]
        region == tempo_region_of(g.city)
    IN /\ region # "none"
       /\ region \in DOMAIN tempo_data
       /\ \E k \in 1..Len(tempo_data[region]) : InTolerance(tempo_data[region], g, k)

PairsOf(lab) == Cardinality({i \in PairIndices : matched_pairs[i].ground_row = lab})

(* C3: in scientific_spatial_temporal_matching a ground observation yields  *)
(* exactly one pair if and only if its city maps to a region with a pool    *)
(* one pixel of which is within the radius and the window, no pair          *)
(* otherwise, and never more than one                                       *)
C3_OnePairIffCandidate ==
    matcher = "scientific" =>
        \A lab \in 1..Len(ground_data) :
            PairsOf(lab) = IF lab \in Visited /\ HasCandidate(lab) THEN 1 ELSE 0

\* the matcher has finished; one row was matched, another has its nearest
\* pixel 25 km away under a radius of 20 km and was dropped
C3_Witness ==
    /\ matcher = "scientific"
    /\ row = Len(ground_data)
    /\ spatial_radius_km = 20
    /\ \E lab \in 1..Len(ground_data) : PairsOf(lab) = 1
    /\ \E lab \in 1..Len(ground_data) :
          LET g      == ground_data[lab]
              region == tempo_region_of(g.city)
          IN /\ region \in DOMAIN tempo_data
             /\ tempo_data[region] # <<>>
             /\ \A k \in 1..Len(tempo_data[region]) :
                   /\ Abs(tempo_data[region][k].latitude - g.Latitude) = 25
                   /\ Abs(tempo_data[region][k].time_utc - g.time_utc) <= temporal_window_hours
             /\ PairsOf(lab) = 0

(* C4: the pixel of every pair of a parameterised matcher minimises         *)
(* distance_km + time_diff_hours * weight over the pixels of the region     *)
(* pool that are within the radius and the window                           *)
C4_MinimalScore ==
    matcher \in ParameterisedMatchers =>
        \A i \in PairIndices :
            LET pair == matched_pairs[i]
                pool == PoolOf(pair)
                g    == GroundOf(pair)
            IN \A k \in 1..Len(pool) :
                  InTolerance(pool, g, k) =>
                      pair.distance_km + pair.time_diff_hours * Weight <= Score(pool, g, k)

\* a pair was selected against a candidate of strictly higher score, whose
\* distance alone is smaller than the distance of the selected pixel
C4_Witness ==
    /\ matcher \in ParameterisedMatchers
    /\ \E i \in PairIndices :
          LET pair == matched_pairs[i]
              pool == PoolOf(pair)
              g    == GroundOf(pair)
          IN \E k \in 1..Len(pool) :
                /\ InTolerance(pool, g, k)
                /\ Score(pool, g, k) > pair.distance_km + pair.time_diff_hours * Weight
                /\ Abs(pool[k].latitude - g.Latitude) < pair.distance_km

(* C5: when several pixels within the tolerances share the minimal score,   *)
(* the one that comes first in the pool is the one selected                 *)
C5_FirstOnTie ==
    matcher \in ParameterisedMatchers =>
        \A i \in PairIndices :
            LET pair == matched_pairs[i]
                pool == PoolOf(pair)
                g    == GroundOf(pair)
            IN \A k \in 1..Len(pool) :
                  (InTolerance(pool, g, k) /\ Score(pool, g, k) = Score(pool, g, pair.tempo_row))
                      => pair.tempo_row <= k

\* a pair was selected while a different pixel later in the pool has the
\* same minimal score
C5_Witness ==
    /\ matcher \in ParameterisedMatchers
    /\ \E i \in PairIndices :
          LET pair == matched_pairs[i]
              pool == PoolOf(pair)
              g    == GroundOf(pair)
          IN \E k \in 1..Len(pool) :
                /\ k > pair.tempo_row
                /\ InTolerance(pool, g, k)
                /\ Score(pool, g, k) = Score(pool, g, pair.tempo_row)
                /\ pool[k].latitude # pair.tempo_lat

(* C9: an observation whose parameter has no satellite column of its own    *)
(* yields no pair, and the satellite value of a pair is read from the       *)
(* column of the observation's own parameter                                *)
SatelliteColumn(parameter) ==
    CASE parameter \in {"O3", "OZONE"} -> "o3"
      [] parameter \in {"NO2"}         -> "no2"
      [] OTHER                         -> "none"

C9_OwnColumnOrDropped ==
    matcher \in ParameterisedMatchers =>
        \A i \in PairIndices :
            LET pair == matched_pairs[i]
                col  == SatelliteColumn(pair.ground_parameter)
            IN /\ col # "none"
               /\ "tempo_variable" \in DOMAIN pair => pair.tempo_variable = col

----------------------------------------------------------------------------
(* Properties of the region matcher (specification SpecRegion) *)

RegionPoolOf(pair) == tempo_data[tempo_region_map(pair.region)]

(* C2: every pair emitted by match_region_temporally_and_spatially has      *)
(* distance_km <= 150 and time_diff_hours <= 72                             *)
C2_RegionTolerance ==
    matcher = "region" =>
        \A i \in PairIndices :
            /\ matched_pairs[i].distance_km <= RegionRadiusKm
            /\ matched_pairs[i].time_diff_hours <= RegionWindowHours

(* C8: the pixel of every pair emitted by                                   *)
(* match_region_temporally_and_spatially has quality_flag <= 2,             *)
(* cloud_fraction < 0.8 and solar_zenith_angle < 85, for each of these      *)
(* columns that the pool has                                                *)
C8_Admissible ==
    matcher = "region" =>
        \A i \in PairIndices :
            LET px == RegionPoolOf(matched_pairs[i])[matched_pairs[i].tempo_row]
            IN /\ "quality_flag" \in DOMAIN px => px.quality_flag <= 2
               /\ "cloud_fraction" \in DOMAIN px => px.cloud_fraction < 80
               /\ "solar_zenith_angle" \in DOMAIN px => px.solar_zenith_angle < 85

\* a pair was emitted from a pool in which a pixel that fails a filter is
\* nearer to the station than the pixel of the pair, or as near and earlier
\* in the pool
C8_Witness ==
    /\ matcher = "region"
    /\ \E i \in PairIndices :
          LET pair == matched_pairs[i]
              pool == RegionPoolOf(pair)
          IN \E k \in 1..Len(pool) :
                LET d == Abs(pool[k].latitude - pair.ground_lat)
                IN /\ "quality_flag" \in DOMAIN pool[k]
                   /\ \/ pool[k].quality_flag > 2
                      \/ pool[k].cloud_fraction >= 80
                      \/ pool[k].solar_zenith_angle >= 85
                   /\ \/ d < pair.distance_km
                      \/ d = pair.distance_km /\ k < pair.tempo_row

----------------------------------------------------------------------------
(* Properties of two executions (specifications SpecAgain and SpecAbsent) *)

Second == earlier # <<>> /\ finished

MatchedRows(pairs) == {pairs[i].ground_row : i \in 1..Len(pairs)}

(* C6: with the tables held fixed, a matcher called with a radius and a     *)
(* window that are not smaller than those of an earlier call emits at       *)
(* least as many pairs, and matches every observation the earlier call      *)
(* matched                                                                  *)
C6_Monotone ==
    ( /\ matcher \in {"scientific", "fixed"}
      /\ Second
      /\ earlier[1].spatial_radius_km <= spatial_radius_km
      /\ earlier[1].temporal_window_hours <= temporal_window_hours )
    => /\ Len(earlier[1].matched_pairs) <= Len(matched_pairs)
       /\ MatchedRows(earlier[1].matched_pairs) \subseteq MatchedRows(matched_pairs)

\* the second call had a larger radius and a larger window, and matched an
\* observation more than the first, which had matched one
C6_Witness ==
    /\ matcher \in {"scientific", "fixed"}
    /\ Second
    /\ earlier[1].spatial_radius_km < spatial_radius_km
    /\ earlier[1].temporal_window_hours < temporal_window_hours
    /\ earlier[1].matched_pairs # <<>>
    /\ Len(earlier[1].matched_pairs) < Len(matched_pairs)

Emitted(pairs) ==
    [i \in 1..Len(pairs) |->
        [f \in DOMAIN pairs[i] \ {"ground_row"} |-> pairs[i][f]]]

\* the order in which the loops of the matcher take the rows of a table
Order(gd) == IF matcher = "region" THEN region_order(gd) ELSE groupby_city(gd)

(* C10: the observations of a region that has no pool yield no pair, and    *)
(* the pairs the matcher returns are those it returns for the table         *)
(* without these observations                                               *)
C10_RegionWithoutPool ==
    /\ \A i \in PairIndices : has_pool(ground_data[matched_pairs[i].ground_row])
    /\ Second => Emitted(matched_pairs) = Emitted(earlier[1].matched_pairs)

\* the first execution began with an observation of a region without a
\* pool and went on to return a pair; the second ran without that region
C10_Witness ==
    /\ Second
    /\ Len(ground_data) < Len(earlier[1].ground_data)
    /\ ~ has_pool(earlier[1].ground_data[Order(earlier[1].ground_data)[1]])
    /\ matched_pairs # <<>>
    /\ earlier[1].matched_pairs # <<>>

----------------------------------------------------------------------------
(* Properties of the pipelines (specification SpecPipeline) *)

(* C11: in every pipeline, no pair has a ground observation with a missing  *)
(* latitude or longitude or with a value that is not positive               *)
C11_ValidGroundInPairs ==
    locals.function = "main" =>
        \A i \in PairIndices :
            LET pair == matched_pairs[i]
                g    == ground_data[pair.ground_row]
            IN /\ notna(pair.ground_lat)
               /\ notna(IF matcher = "region" THEN g.longitude ELSE g.Longitude)
               /\ notna(pair.ground_value)
               /\ pair.ground_value > 0

(* C12: when the cleaning leaves no row, the run ends with a message, no    *)
(* statistic computed and no artifact written                               *)
C12_AbortWithoutUsableRows ==
    (locals.function = "main" /\ pc = "exit" /\ ground_data = <<>>)
        => /\ locals.message # ""
           /\ ~ locals.statistics
           /\ locals.artifacts = {}

----------------------------------------------------------------------------
(* Properties of deming_regression (specification SpecDeming) *)

DemingReturned == pc = "return" /\ locals.function = "deming_regression"

(* C13: with fewer than two rows that are finite in both arrays,            *)
(* deming_regression returns slope 1, intercept 0 and r2 0                  *)
C13_NeutralBelowTwoPoints ==
    (DemingReturned /\ Len(clean_mask(args.x, args.y)) < 2)
        => /\ locals.return.slope = one
           /\ locals.return.intercept = zero
           /\ locals.return.r_squared = zero

\* every value of the array is the same finite number
IsConstant(a) == \A k \in 1..Len(a) : isfinite(a[k]) /\ a[k] = a[1]

(* C14: for two constant arrays of two or more values deming_regression     *)
(* returns slope 1, intercept 0 and r2 0                                    *)
C14_NeutralOnConstantArrays ==
    (DemingReturned /\ Len(args.x) >= 2 /\ IsConstant(args.x) /\ IsConstant(args.y))
        => /\ locals.return.slope = one
           /\ locals.return.intercept = zero
           /\ locals.return.r_squared = zero

\* lambda_ratio before the clamp
Unclamped ==
    IF args.lambda_ratio = None THEN lambda_estimate(args.x, args.y) ELSE args.lambda_ratio

InLambdaRange(a) == leq(LambdaMin, a) /\ leq(a, LambdaMax)

(* C15: the lambda deming_regression returns lies in [0.05, 20], and the    *)
(* clamp warning is printed exactly when the lambda before the clamp does   *)
(* not                                                                      *)
C15_LambdaInRange ==
    DemingReturned =>
        /\ InLambdaRange(locals.return.lambda_used)
        /\ locals.return.warned <=> ~ InLambdaRange(Unclamped)

(* C16: when minimize did not converge or raised, deming_regression returns *)
(* the slope, the intercept and the r2 of the OLS fit                       *)
C16_OlsOnOptimizerFailure ==
    ( /\ DemingReturned
      /\ locals.return.returned # "line 118"
      /\ locals.result.status # "converged" )
    => LET guess == initial_guess(args.x, args.y)
       IN /\ locals.return.slope = guess.slope
          /\ locals.return.intercept = guess.intercept
          /\ locals.return.r_squared =
                r2_score(args.y, predict(args.x, guess.slope, guess.intercept), TRUE)

----------------------------------------------------------------------------
(* Properties of loco_validation (specification SpecLoco) *)

\* the cities the loop of loco_validation has taken so far
LocoVisited == {locals.cities[k] : k \in 1..locals.i}

\* the labels of the rows of a city, and of the rows of all other cities
RowsOf(city) == {k \in 1..Len(args.matched_data) : args.matched_data[k].city = city}
RowsOfOthers(city) == {k \in 1..Len(args.matched_data) : args.matched_data[k].city # city}

\* the cities the loop has taken whose fold has enough samples
Evaluated ==
    {c \in LocoVisited : Cardinality(RowsOfOthers(c)) >= 10 /\ Cardinality(RowsOf(c)) >= 5}

(* C17: in loco_validation the fold of a group is trained on the rows of    *)
(* all other groups and tested on the rows of the held-out group; it is     *)
(* evaluated if and only if it has at least 10 training and 5 test samples; *)
(* the result map has an entry for exactly the evaluated groups and the     *)
(* improvement aggregate one value for each of them                         *)
C17_LocoFolds ==
    locals.function = "loco_validation" =>
        /\ DOMAIN locals.loco_results = Evaluated
        /\ Len(locals.rmse_improvements) = Cardinality(Evaluated)
        /\ \A c \in DOMAIN locals.loco_results :
              /\ locals.loco_results[c].train_rows = RowsOfOthers(c)
              /\ locals.loco_results[c].test_rows = RowsOf(c)
              /\ locals.loco_results[c].n_train = Cardinality(RowsOfOthers(c))
              /\ locals.loco_results[c].n_test = Cardinality(RowsOf(c))

\* loco_validation returned; one fold was evaluated with exactly 10 training
\* and 5 test samples, one was skipped for its 9 training samples and one
\* for its 4 test samples
C17_Witness ==
    /\ locals.function = "loco_validation"
    /\ pc = "return"
    /\ \E a, b, c \in LocoVisited :
          /\ a \in DOMAIN locals.loco_results
          /\ locals.loco_results[a].n_train = 10
          /\ locals.loco_results[a].n_test = 5
          /\ b \notin DOMAIN locals.loco_results
          /\ Cardinality(RowsOfOthers(b)) = 9
          /\ Cardinality(RowsOf(b)) >= 5
          /\ c \notin DOMAIN locals.loco_results
          /\ Cardinality(RowsOf(c)) = 4
          /\ Cardinality(RowsOfOthers(c)) >= 10

(* C18: every group that loco_validation skips for its sample counts is     *)
(* recorded in the result with its sample count: once the function has      *)
(* returned, every city of the table has an entry                           *)
C18_SkippedGroupsRecorded ==
    (locals.function = "loco_validation" /\ pc = "return") =>
        \A k \in 1..Len(args.matched_data) :
            args.matched_data[k].city \in DOMAIN locals.loco_results

----------------------------------------------------------------------------
(* Properties of apply_bias_correction (specification SpecBias) *)

\* the labels of the rows of a city in the table of apply_bias_correction
GroupOf(city) ==
    SelectSeq(Indices(args.matched_data), LAMBDA k : args.matched_data[k].city = city)

\* every pair of the group has ground value = satellite value + 10
UniformlyTenHigher(city) ==
    \A k \in Range(GroupOf(city)) :
        args.matched_data[k].ground_value = add(args.matched_data[k].tempo_o3, Q(10, 1))

\* the mean squared error against ground of a column of the corrected rows
\* of a city; the RMSE is its square root
GroupError(city, column) ==
    mean_squared_error(values_of(locals.corrected_data, GroupOf(city), "ground_value"),
                       values_of(locals.corrected_data, GroupOf(city), column))

(* C19: when apply_bias_correction has returned, every non-empty group in   *)
(* which each pair has ground value = satellite value + 10 has the offset   *)
(* 10 and corrected satellite values of strictly lower RMSE against ground  *)
(* than the raw ones, whatever the number of pairs of the group             *)
C19_UniformOffsetRecovered ==
    (locals.function = "apply_bias_correction" /\ pc = "return") =>
        \A city \in Range(locals.cities) :
            UniformlyTenHigher(city) =>
                /\ city \in DOMAIN locals.printed
                /\ locals.printed[city] = Q(10, 1)
                /\ less(GroupError(city, "tempo_o3_corrected"), GroupError(city, "tempo_o3"))

----------------------------------------------------------------------------
(* Properties of permutation_test (specification SpecPermutation) *)

\* how often a value occurs in an array
Occurrences(a, v) == Cardinality({k \in 1..Len(a) : a[k] = v})

\* array b holds the values of array a, reordered
IsReordering(a, b) ==
    /\ Len(a) = Len(b)
    /\ \A v \in Range(a) \cup Range(b) : Occurrences(a, v) = Occurrences(b, v)

\* the permutations whose R2 is >= the observed R2
AtLeastObserved ==
    {k \in 1..Len(locals.r2_permuted) :
        /\ ~ isnan(locals.r2_permuted[k])
        /\ ~ isnan(locals.real_r2)
        /\ ~ less(locals.r2_permuted[k], locals.real_r2)}

(* C20: permutation_test with N >= 1 permutations returns p_value = (number *)
(* of permutations whose R2 is >= the observed R2) / N, between 0 and 1; in *)
(* every permutation the R2 is computed from the ground values reordered    *)
(* and the satellite values in their original order                         *)
C20_PermutationPValue ==
    locals.function = "permutation_test" =>
        /\ IsReordering(args.ground, locals.y_true)
        /\ locals.y_pred = args.tempo
        /\ Len(locals.r2_permuted) <= args.n_permutations
        /\ locals.r2_permuted # <<>> =>
              locals.r2_permuted[Len(locals.r2_permuted)] =
                 r2_score(locals.y_true, args.tempo, TRUE)
        /\ pc = "return" =>
              /\ Len(locals.r2_permuted) = args.n_permutations
              /\ locals.return.p_value.d * Cardinality(AtLeastObserved) =
                    locals.return.p_value.n * args.n_permutations
              /\ locals.return.p_value.d > 0
              /\ 0 <= locals.return.p_value.n
              /\ locals.return.p_value.n <= locals.return.p_value.d

\* permutation_test returned a p-value strictly between 0 and 1: one
\* permutation reordered the ground array and fell below the observed R2,
\* another reached it
C20_Witness ==
    /\ locals.function = "permutation_test"
    /\ pc = "return"
    /\ locals.return.p_value = Q(1, 2)
    /\ locals.y_true # args.ground
    /\ \E k \in 1..Len(locals.r2_permuted) : less(locals.r2_permuted[k], locals.real_r2)

----------------------------------------------------------------------------
(* Properties of quantile_mapping (specification SpecQuantile) *)

QuantileReturned == pc = "return" /\ locals.function = "quantile_mapping"

(* C21: mapping an array through the mapping fitted on the array itself     *)
(* returns every value of the array unchanged                               *)
C21_QuantileMappingIdentity ==
    QuantileReturned /\ args.ground = args.tempo
        => locals.return.tempo_mapped = args.tempo

----------------------------------------------------------------------------
(* Properties of the metrics of scientific_validation.py (specification     *)
(* SpecMetrics)                                                             *)

\* compute_comprehensive_metrics has returned
MetricsReturned == pc = "return" /\ locals.function = "compute_comprehensive_metrics"

(* C22: a group whose interval is a bootstrap percentile interval of R2 has *)
(* 20 pairs or more                                                         *)
C22_BootstrapFromTwentyPairs ==
    MetricsReturned =>
        \A key \in DOMAIN locals.validation_metrics :
            key.level = "city" /\ locals.validation_metrics[key].r2_ci = "bootstrap"
                => locals.validation_metrics[key].n_samples >= BootstrapMin

\* the key of the metrics of the uncorrected satellite values of a city
OriginalKey(city) == [name |-> city, level |-> "city", suffix |-> "_original"]

(* C23: the offset apply_bias_correction reports as the bias of a city and  *)
(* the bias compute_comprehensive_metrics stores for the same pairs have    *)
(* the same sign                                                            *)
C23_BiasesOfOneSign ==
    MetricsReturned =>
        \A city \in DOMAIN locals.printed :
            OriginalKey(city) \in DOMAIN locals.validation_metrics
                => sign(locals.printed[city].n)
                       = sign(locals.validation_metrics[OriginalKey(city)].bias.n)

(* C24: a metric whose computation raised is not stored as a finite number, *)
(* which a computed metric can also be                                      *)
C24_UncomputedNotANumber ==
    MetricsReturned =>
        \A key \in locals.raised :
            /\ ~ isfinite(locals.validation_metrics[key].r2)
            /\ ~ isfinite(locals.validation_metrics[key].mse)
            /\ ~ isfinite(locals.validation_metrics[key].bias)

----------------------------------------------------------------------------
(* Properties of the report of advanced_validation.py (specification        *)
(* SpecReport)                                                              *)

ReportCreated == pc = "return" /\ locals.function = "create_comprehensive_report"

(* C25: every pair of the report is within the radius and the window that   *)
(* the run manifest and the validation summary of the report record         *)
C25_RecordedTolerancesApplied ==
    ReportCreated =>
        \A k \in 1..Len(matched_pairs) :
            /\ matched_pairs[k].distance_km <= locals.report.run_manifest.spatial_radius_km
            /\ matched_pairs[k].distance_km
                   <= locals.report.validation_summary.spatial_radius_km
            /\ matched_pairs[k].time_diff_hours
                   <= locals.report.run_manifest.temporal_window_hours
            /\ matched_pairs[k].time_diff_hours
                   <= locals.report.validation_summary.temporal_window_hours

----------------------------------------------------------------------------
(* Properties of the analysis stages of main (specification SpecStages) *)

(* C26: after the analysis stages the table of matched pairs has the rows,  *)
(* the columns and the values it had when the matcher returned it           *)
C26_PairsNeverMutated ==
    locals.function \in {"station_level_analysis", "event_aware_stratification"}
        => matched_pairs = locals.returned_by_matcher

----------------------------------------------------------------------------
(* Completeness of the region matcher (specification SpecRegion) *)

\* the pixels of the observation's pool that pass the quality filters, lie
\* within 150 km and 72 h of it and carry a value in its column
valid_pixels(g) ==
    {k \in DOMAIN tempo_data[tempo_region_map(g.region)] :
        LET pool == tempo_data[tempo_region_map(g.region)]
        IN /\ \E j \in 1..Len(quality_filter(pool)) : quality_filter(pool)[j] = k
           /\ haversine_distance(g.latitude, pool[k].latitude) <= RegionRadiusKm
           /\ region_time_diff(pool, g, k) <= RegionWindowHours
           /\ pollutant_col_of(g.parameter) \in columns(pool)
           /\ pool[k][pollutant_col_of(g.parameter)] # FillValue}

(* C29: an observation of a city that has a pool yields a pair whenever a   *)
(* pixel of the pool that passes the quality filters, lies within 150 km    *)
(* and 72 h of it and carries a value in its column exists                  *)
C29_PairWheneverValidPixel ==
    finished /\ matcher = "region" =>
        \A lab \in 1..Len(ground_data) :
            /\ ground_data[lab].city # "Unknown"
            /\ tempo_region_map(ground_data[lab].region) \in DOMAIN tempo_data
            /\ valid_pixels(ground_data[lab]) # {}
            => \E p \in 1..Len(matched_pairs) : matched_pairs[p].ground_row = lab

----------------------------------------------------------------------------
(* Properties of the sensitivity analysis (specification SpecSensitivity) *)

\* the number of pairs scientific_spatial_temporal_matching emits on the
\* ground table and the TEMPO dict of the run with a radius and a window
pairs_emitted(radius, window) ==
    Cardinality({lab \in 1..Len(ground_data) :
        /\ tempo_region_of(ground_data[lab].city) # "none"
        /\ tempo_region_of(ground_data[lab].city) \in DOMAIN tempo_data
        /\ best_idx(tempo_data[tempo_region_of(ground_data[lab].city)],
                    ground_data[lab], radius, window, 2) # 0})

\* the n_matches the analysis reports for a radius and a window, 0 when it
\* reports none
n_matches_reported(radius, window) ==
    IF \E e \in locals.sensitivity_results :
           e.spatial_radius_km = radius /\ e.temporal_window_hours = window
    THEN (CHOOSE e \in locals.sensitivity_results :
              e.spatial_radius_km = radius /\ e.temporal_window_hours = window).n_matches
    ELSE 0

(* C30: for every radius and window of the grid, the n_matches of the       *)
(* sensitivity analysis is the number of pairs the matcher emits on the     *)
(* ground and satellite data of the run with that radius and window         *)
C30_SensitivityCountsMatcherPairs ==
    locals # no_call /\ locals.function = "create_sensitivity_analysis" =>
        \A radius \in spatial_radii : \A window \in temporal_windows :
            n_matches_reported(radius, window) = pairs_emitted(radius, window)

----------------------------------------------------------------------------
(* Properties of the calibration of loco_validation (specification          *)
(* SpecCalibration)                                                         *)

\* every pair of the table has ground value = satellite value + c
OffsetBy(c) ==
    \A k \in 1..Len(args.matched_data) :
        args.matched_data[k].ground_value = add(args.matched_data[k].tempo_value, Q(c, 1))

\* the fold was calibrated with the line that minimizes the Deming
\* objective on such training data, satellite = ground - c
ExactFit(entry, c) ==
    entry.calibration_slope = one /\ entry.calibration_intercept = Q(0 - c, 1)

(* C28: when every pair has ground = satellite + c for one constant c # 0,  *)
(* every fold loco_validation evaluated with the line of the Deming fit has *)
(* a strictly lower RMSE against ground after the calibration than before:  *)
(* its RMSE improvement is positive                                         *)
C28_CalibrationLowersRmse ==
    locals.function = "loco_validation" =>
        \A c \in Offsets : \A city \in DOMAIN locals.loco_results :
            OffsetBy(c) /\ ExactFit(locals.loco_results[city], c)
                => locals.loco_results[city].rmse_improvement = "positive"

----------------------------------------------------------------------------
(* Properties of the stochastic stages (specification SpecStochastic) *)

(* C27: with the seed fixed at the start of the run, the p-value of         *)
(* permutation_test and the bootstrap interval of                           *)
(* create_agreement_summary_table are what the stage gives when it is the   *)
(* first to run, whichever stage ran before it                              *)
C27_StagesIndependent ==
    pc = "stages" =>
        /\ locals.perm_results # None =>
              locals.perm_results =
                  permutation_test_from(args.ground, args.tempo, args.n_permutations,
                                        args.stream, 0).p_value
        /\ locals.r2_ci # None =>
              locals.r2_ci =
                  bootstrap_from(args.ground, args.tempo_calibrated, args.stream, 0).r2_ci

====
